---------------------------- MODULE Spec2Model ----------------------------
(***************************************************************************)
(* A model of the Gemini-controlled Minecraft Bedrock bot: the state       *)
(* store (BotState), the decision engine (GeminiController), the           *)
(* single-flight action executor (ActionExecutor) and the control loop     *)
(* (MinecraftBot.aiLoop) of src/unnamed/part_000, with the history store   *)
(* of the older variant src/bot.js where it differs.                       *)
(*                                                                         *)
(* Text is a sequence of one-character strings, so that toLowerCase, trim, *)
(* split and parseInt are computed as the code computes them.  Positions   *)
(* are integers counted in 1/40 block, in which every step a handler takes *)
(* for a whole number of blocks is a whole number.                         *)
(*                                                                         *)
(* One step of the model is one task of the JavaScript event loop: a       *)
(* handler runs from the event that starts or resumes it to its next       *)
(* timer or network await, its promise continuations included.  The        *)
(* relative order of independent tasks (network replies, HTTP requests,    *)
(* session events, the sleep of the control loop) is unconstrained.  The    *)
(* timers of the executor are ordered by the time at which they run out:   *)
(* the two branches of one Promise.race, and the sleeps of two handlers    *)
(* that are in progress together.                                          *)
(***************************************************************************)
EXTENDS Integers, Sequences, FiniteSets, TLC

(***************************************************************************)
(* Text                                                                    *)
(***************************************************************************)
UpperChars == <<"A","B","C","D","E","F","G","H","I","J","K","L","M",
                "N","O","P","Q","R","S","T","U","V","W","X","Y","Z">>
LowerChars == <<"a","b","c","d","e","f","g","h","i","j","k","l","m",
                "n","o","p","q","r","s","t","u","v","w","x","y","z">>
DigitChars == <<"0","1","2","3","4","5","6","7","8","9">>

\* the lower case of every capital
Lowered == [c \in {UpperChars[i] : i \in 1..26} |->
              LowerChars[CHOOSE i \in 1..26 : UpperChars[i] = c]]

\* String.prototype.toLowerCase, one character
LowerChar(c) == IF c \in DOMAIN Lowered THEN Lowered[c] ELSE c

\* String.prototype.toLowerCase
toLowerCase(s) == [i \in 1..Len(s) |-> LowerChar(s[i])]

\* the regular expression class \s, as far as the inputs use it
IsSpace(c) == c \in {" ", "\t", "\n", "\r"}

RECURSIVE TrimStart(_)
TrimStart(s) ==
  IF s # <<>> /\ IsSpace(Head(s)) THEN TrimStart(Tail(s)) ELSE s

RECURSIVE TrimEnd(_)
TrimEnd(s) ==
  IF s # <<>> /\ IsSpace(s[Len(s)]) THEN TrimEnd(SubSeq(s, 1, Len(s) - 1)) ELSE s

\* String.prototype.trim
trim(s) == TrimEnd(TrimStart(s))

\* the longest prefix of s without white space
RECURSIVE WordPrefix(_)
WordPrefix(s) ==
  IF s = <<>> \/ IsSpace(Head(s)) THEN <<>> ELSE <<Head(s)>> \o WordPrefix(Tail(s))

\* String.prototype.split(/\s+/): an empty string gives one empty part, a
\* leading or trailing run of white space gives an empty first or last part
RECURSIVE splitSpaces(_)
splitSpaces(s) ==
  LET w    == WordPrefix(s)
      rest == SubSeq(s, Len(w) + 1, Len(s))
  IN  IF rest = <<>> THEN <<w>>
      ELSE <<w>> \o splitSpaces(TrimStart(rest))

\* Array.prototype.join(' ')
RECURSIVE joinSpace(_)
joinSpace(parts) ==
  IF parts = <<>> THEN <<>>
  ELSE IF Len(parts) = 1 THEN parts[1]
  ELSE parts[1] \o <<" ">> \o joinSpace(Tail(parts))

\* String.prototype.includes
includes(s, t) ==
  \E i \in 1..(Len(s) - Len(t) + 1) : SubSeq(s, i, i + Len(t) - 1) = t

\* the value undefined where text is expected (a missing argument); no text
\* equals it, since every element of a text is a single character
undefined == <<"undefined">>

\* NaN and the number undefined among the integers: two values no
\* coordinate, angle or count of the model reaches
NaN == 0 - 1000000000
undefinedNumber == 0 - 1000000001
IsNumber(v) == v # NaN /\ v # undefinedNumber

\* a + b and a * b of JavaScript numbers
Plus(a, b) == IF IsNumber(a) /\ IsNumber(b) THEN a + b ELSE NaN
Times(a, b) == IF IsNumber(a) /\ IsNumber(b) THEN a * b ELSE NaN

Digits == [c \in {DigitChars[i] : i \in 1..10} |->
             (CHOOSE i \in 1..10 : DigitChars[i] = c) - 1]
DigitValue(c) == Digits[c]
IsDigit(c) == c \in DOMAIN Digits

RECURSIVE DigitsValue(_, _)
DigitsValue(s, acc) ==
  IF s = <<>> \/ ~IsDigit(Head(s)) THEN acc
  ELSE DigitsValue(Tail(s), 10 * acc + DigitValue(Head(s)))

\* parseInt(string) without a radix, for decimal text: leading white space
\* and one sign are skipped, the digits up to the first other character are
\* read, and text that starts with no digit is NaN.  undefined is NaN.
parseInt(tok) ==
  IF tok = undefined THEN NaN
  ELSE LET t    == TrimStart(tok)
           neg  == t # <<>> /\ Head(t) = "-"
           body == IF t # <<>> /\ Head(t) \in {"-", "+"} THEN Tail(t) ELSE t
       IN  IF body = <<>> \/ ~IsDigit(Head(body)) THEN NaN
           ELSE IF neg THEN 0 - DigitsValue(body, 0) ELSE DigitsValue(body, 0)

\* number || fallback: NaN and 0 are falsy
OrElse(n, fallback) == IF n = NaN \/ n = 0 THEN fallback ELSE n

RECURSIVE NatText(_)
NatText(n) ==
  IF n < 10 THEN <<DigitChars[n + 1]>>
  ELSE NatText(n \div 10) \o <<DigitChars[(n % 10) + 1]>>

\* String(number) of an integer
NumText(n) == IF n < 0 THEN <<"-">> \o NatText(0 - n) ELSE NatText(n)


\* the text a template literal or a string concatenation gives for a value
TextOf(v) == IF v = undefined THEN <<"u","n","d","e","f","i","n","e","d">> ELSE v

(***************************************************************************)
(* Words of the command language                                           *)
(***************************************************************************)
W_move     == <<"m","o","v","e">>
W_jumpmove == <<"j","u","m","p","m","o","v","e">>
W_mine     == <<"m","i","n","e">>
W_explore  == <<"e","x","p","l","o","r","e">>
W_attack   == <<"a","t","t","a","c","k">>
W_chat     == <<"c","h","a","t">>
W_wait     == <<"w","a","i","t">>
W_north    == <<"n","o","r","t","h">>
W_south    == <<"s","o","u","t","h">>
W_east     == <<"e","a","s","t">>
W_west     == <<"w","e","s","t">>
W_wood     == <<"w","o","o","d">>
W_down     == <<"d","o","w","n">>
W_stone    == <<"s","t","o","n","e">>
W_dirt     == <<"d","i","r","t">>
W_constructor == <<"c","o","n","s","t","r","u","c","t","o","r">>
W_proto    == <<"_","_","p","r","o","t","o","_","_">>
SP         == <<" ">>

(***************************************************************************)
(* Configuration (config.bot)                                              *)
(***************************************************************************)
thinkInterval        == 8000
actionTimeout        == 30000
maxConsecutiveErrors == 5
historyCapacity      == 100
conversationCapacity == 20

\* one block, in position units: positions are counted in 1/40 block, the
\* smallest step a move handler takes for a whole number of blocks
Block == 40

(***************************************************************************)
(* Values                                                                  *)
(***************************************************************************)
Vec(x, y, z) == [x |-> x, y |-> y, z |-> z]
Rot(yaw, pitch) == [yaw |-> yaw, pitch |-> pitch]

Msg(text, args) == [text |-> text, args |-> args]
NoMessage == Msg("undefined", <<>>)

\* an ExecutionResult {success, message}
Result(success, message) == [isResult |-> TRUE, success |-> success, message |-> message]
\* the object Object() returns: it has neither a success nor a message
EmptyObject == [isResult |-> FALSE, success |-> FALSE, message |-> NoMessage]

BusyResult == Result(FALSE, Msg("Busy", <<>>))
UnknownCommand(command) == Result(FALSE, Msg("Unknown command: ${command}", <<command>>))
TimeoutError == Msg("Action timeout", <<>>)
NotAFunction == Msg("actionFn is not a function", <<>>)

\* the outcome marks of a history entry: the code writes a check mark, a
\* cross and the word ERROR
CheckMark == "check"
CrossMark == "cross"
ErrorMark == "ERROR"

(***************************************************************************)
(* BotState                                                                *)
(***************************************************************************)
\* BotState.addToHistory on the log `history`
\* an entry tagged with the phase a new state starts in
historyEntry_untagged(now, action, result, details, phase, position) ==
  [timestamp |-> now, action |-> action, result |-> result,
   details |-> IF details = NoMessage THEN Msg("", <<>>) ELSE details,
   phase |-> "early", position |-> position]

historyEntry(now, action, result, details, phase, position) ==
  [timestamp |-> now, action |-> action, result |-> result,
   details |-> IF details = NoMessage THEN Msg("", <<>>) ELSE details,
   phase |-> phase, position |-> position]

\* an addToHistory that cuts the log at its head
addToHistory_keepsHead(history, now, action, result, details, phase, position) ==
  LET pushed == Append(history, historyEntry(now, action, result, details,
                                             phase, position))
  IN  IF Len(pushed) > historyCapacity
      THEN SubSeq(pushed, 1, historyCapacity)
      ELSE pushed

addToHistory(history, now, action, result, details, phase, position) ==
  LET pushed == Append(history, historyEntry(now, action, result, details,
                                             phase, position))
  IN  IF Len(pushed) > historyCapacity
      THEN SubSeq(pushed, Len(pushed) - historyCapacity + 1, Len(pushed))
      ELSE pushed

\* BotState.addToHistory of src/bot.js: an entry has no details and no
\* position, and the log keeps 50 entries
botHistoryCapacity == 50

\* a plan of src/bot.js, by the fields its executor reads
BotPlan(action, estimatedTime) == [action |-> action, estimatedTime |-> estimatedTime]

botHistoryEntry(now, action, result, phase) ==
  [timestamp |-> now, action |-> action, result |-> result, phase |-> phase]

botAddToHistory(history, now, action, result, phase) ==
  LET pushed == Append(history, botHistoryEntry(now, action, result, phase))
  IN  IF Len(pushed) > botHistoryCapacity
      THEN SubSeq(pushed, Len(pushed) - botHistoryCapacity + 1, Len(pushed))
      ELSE pushed

\* BotState.determineGamePhase on an inventory (a sequence of items; the
\* name of an item is text, or undefined)
determineGamePhase(inventory) ==
  LET items == [i \in 1..Len(inventory) |->
                  IF inventory[i].name = undefined THEN <<>>
                  ELSE toLowerCase(inventory[i].name)]
      some(word) == \E i \in 1..Len(items) : includes(items[i], word)
  IN  IF some(<<"d","i","a","m","o","n","d">>)
         \/ some(<<"n","e","t","h","e","r","i","t","e">>) THEN "late"
      ELSE IF some(<<"i","r","o","n">>) THEN "mid"
      ELSE "early"


(***************************************************************************)
(* ActionExecutor: the command handlers                                    *)
(*                                                                         *)
(* A handler in progress is a record: where it stands (stage, i), what it  *)
(* was called with, the sleep it is in and the time it has slept so far.   *)
(* Run(h, ...) runs it from that point to its next sleep or to its return. *)
(***************************************************************************)
Min(a, b) == IF a < b THEN a ELSE b

\* Math.floor of a coordinate, in blocks
Floor(u) == IF IsNumber(u) THEN u \div Block ELSE NaN

NoDir == [x |-> 0, z |-> 0, yaw |-> 0, found |-> FALSE]

\* directions[direction] of move and jumpMove: a property lookup in an
\* object literal, which also finds what Object.prototype defines
\* (constructor, __proto__): those have no x, z or yaw
directions(direction) ==
  IF direction = W_north THEN [x |-> 0, z |-> -1, yaw |-> 180, found |-> TRUE]
  ELSE IF direction = W_south THEN [x |-> 0, z |-> 1, yaw |-> 0, found |-> TRUE]
  ELSE IF direction = W_east THEN [x |-> 1, z |-> 0, yaw |-> 270, found |-> TRUE]
  ELSE IF direction = W_west THEN [x |-> -1, z |-> 0, yaw |-> 90, found |-> TRUE]
  ELSE IF direction \in {W_constructor, W_proto}
       THEN [x |-> undefinedNumber, z |-> undefinedNumber,
             yaw |-> undefinedNumber, found |-> TRUE]
  ELSE NoDir

Handler(kind, direction, blocks, text) ==
  [kind |-> kind, stage |-> "start", i |-> 0, direction |-> direction,
   blocks |-> blocks, text |-> text, sleep |-> 0, elapsed |-> 0, raced |-> TRUE]

\* the handler h asleep for ms milliseconds at the given stage
Asleep(h, stage, i, ms) ==
  [h EXCEPT !.stage = stage, !.i = i, !.sleep = ms, !.elapsed = h.elapsed + h.sleep]

\* what one run of a handler does: the packets it writes, the position and
\* rotation it leaves in the state, and either the handler asleep or its result
Sleeping(pkts, position, rotation, h) ==
  [pkts |-> pkts, position |-> position, rotation |-> rotation,
   done |-> FALSE, handler |-> h, result |-> EmptyObject]
Returned(position, rotation, h, result) ==
  [pkts |-> <<>>, position |-> position, rotation |-> rotation,
   done |-> TRUE, handler |-> h, result |-> result]

MovePlayer(entityId, position, yaw, pitch, onGround) ==
  [name |-> "move_player", runtime_id |-> entityId, position |-> position,
   rotation |-> [yaw |-> yaw, pitch |-> pitch, head_yaw |-> yaw],
   on_ground |-> onGround]
PlayerAction(entityId, blockPos) ==
  [name |-> "player_action", runtime_entity_id |-> entityId, action |-> 0,
   position |-> blockPos, face |-> 1]
Animate(entityId) ==
  [name |-> "animate", action_id |-> 1, runtime_entity_id |-> entityId]
Text(message) ==
  [name |-> "text", type |-> "chat", message |-> message]

\* move with four steps a block however many blocks
move_uncapped(h, position, rotation, entityId) ==
  LET dir      == directions(h.direction)
      steps    == h.blocks * 4
      stepSize == (h.blocks * Block) \div steps
      newPos   == Vec(Plus(position.x, Times(dir.x, stepSize)), position.y,
                      Plus(position.z, Times(dir.z, stepSize)))
  IN  IF ~dir.found
      THEN Returned(position, rotation, h,
             Result(FALSE, Msg("Invalid direction: ${direction}", <<TextOf(h.direction)>>)))
      ELSE IF h.i < steps
      THEN Sleeping(<<MovePlayer(entityId, newPos, dir.yaw, 0, TRUE)>>,
                    newPos, Rot(dir.yaw, 0), Asleep(h, "loop", h.i + 1, 50))
      ELSE Returned(position, rotation, h,
             Result(TRUE, Msg("Moved ${direction} ${blocks} blocks",
                              <<h.direction, NumText(h.blocks)>>)))

\* move with a step of a quarter block whatever the number of blocks
move_quarterSteps(h, position, rotation, entityId) ==
  LET dir      == directions(h.direction)
      steps    == Min(h.blocks * 4, 40)
      stepSize == Block \div 4
      newPos   == Vec(Plus(position.x, Times(dir.x, stepSize)), position.y,
                      Plus(position.z, Times(dir.z, stepSize)))
  IN  IF ~dir.found
      THEN Returned(position, rotation, h,
             Result(FALSE, Msg("Invalid direction: ${direction}", <<TextOf(h.direction)>>)))
      ELSE IF h.i < steps
      THEN Sleeping(<<MovePlayer(entityId, newPos, dir.yaw, 0, TRUE)>>,
                    newPos, Rot(dir.yaw, 0), Asleep(h, "loop", h.i + 1, 50))
      ELSE Returned(position, rotation, h,
             Result(TRUE, Msg("Moved ${direction} ${blocks} blocks",
                              <<h.direction, NumText(h.blocks)>>)))

\* ActionExecutor.move (explore awaits it with a random direction and distance)
move(h, position, rotation, entityId) ==
  LET dir      == directions(h.direction)
      steps    == Min(h.blocks * 4, 40)
      stepSize == (h.blocks * Block) \div steps
      newPos   == Vec(Plus(position.x, Times(dir.x, stepSize)), position.y,
                      Plus(position.z, Times(dir.z, stepSize)))
  IN  IF ~dir.found
      THEN Returned(position, rotation, h,
             Result(FALSE, Msg("Invalid direction: ${direction}", <<TextOf(h.direction)>>)))
      ELSE IF h.i < steps
      THEN Sleeping(<<MovePlayer(entityId, newPos, dir.yaw, 0, TRUE)>>,
                    newPos, Rot(dir.yaw, 0), Asleep(h, "loop", h.i + 1, 50))
      ELSE Returned(position, rotation, h,
             Result(TRUE, Msg("Moved ${direction} ${blocks} blocks",
                              <<h.direction, NumText(h.blocks)>>)))

\* jumpMove with a landing straight down from the top of the jump
jumpMove_landsInPlace(h, position, rotation, entityId) ==
  LET dir     == directions(h.direction)
      half    == Block \div 2
      jumpPos == Vec(Plus(position.x, Times(dir.x, half)), Plus(position.y, Block),
                     Plus(position.z, Times(dir.z, half)))
      landPos == Vec(position.x, Plus(position.y, 0 - Block), position.z)
  IN  IF ~dir.found
      THEN Returned(position, rotation, h,
             Result(FALSE, Msg("Invalid direction: ${direction}", <<TextOf(h.direction)>>)))
      ELSE IF h.stage = "air"
      THEN Sleeping(<<MovePlayer(entityId, landPos, dir.yaw, 0, TRUE)>>,
                    landPos, rotation, Asleep(h, "loop", h.i + 1, 150))
      ELSE IF h.i < h.blocks
      THEN Sleeping(<<MovePlayer(entityId, jumpPos, dir.yaw, 0, FALSE)>>,
                    jumpPos, rotation, Asleep(h, "air", h.i, 150))
      ELSE Returned(position, rotation, h,
             Result(TRUE, Msg("Jump-moved ${direction} ${blocks} blocks",
                              <<h.direction, NumText(h.blocks)>>)))

\* ActionExecutor.jumpMove
jumpMove(h, position, rotation, entityId) ==
  LET dir     == directions(h.direction)
      half    == Block \div 2
      jumpPos == Vec(Plus(position.x, Times(dir.x, half)), Plus(position.y, Block),
                     Plus(position.z, Times(dir.z, half)))
      landPos == Vec(Plus(position.x, Times(dir.x, half)), Plus(position.y, 0 - Block),
                     Plus(position.z, Times(dir.z, half)))
  IN  IF ~dir.found
      THEN Returned(position, rotation, h,
             Result(FALSE, Msg("Invalid direction: ${direction}", <<TextOf(h.direction)>>)))
      ELSE IF h.stage = "air"
      THEN Sleeping(<<MovePlayer(entityId, landPos, dir.yaw, 0, TRUE)>>,
                    landPos, rotation, Asleep(h, "loop", h.i + 1, 150))
      ELSE IF h.i < h.blocks
      THEN Sleeping(<<MovePlayer(entityId, jumpPos, dir.yaw, 0, FALSE)>>,
                    jumpPos, rotation, Asleep(h, "air", h.i, 150))
      ELSE Returned(position, rotation, h,
             Result(TRUE, Msg("Jump-moved ${direction} ${blocks} blocks",
                              <<h.direction, NumText(h.blocks)>>)))

\* ActionExecutor.mine
mine(h, position, rotation, entityId) ==
  LET lookDown == includes(h.text, W_down) \/ includes(h.text, W_stone)
                    \/ includes(h.text, W_dirt)
      pitch    == IF lookDown THEN 90 ELSE 0
      blockPos == IF lookDown
                  THEN Vec(Floor(position.x), Plus(Floor(position.y), -1), Floor(position.z))
                  ELSE Vec(Floor(position.x), Floor(position.y),
                           Plus(Floor(position.z), IF rotation.yaw = 0 THEN 1 ELSE -1))
  IN  IF h.stage = "start"
      THEN Sleeping(<<MovePlayer(entityId, position, rotation.yaw, pitch, TRUE)>>,
                    position, [rotation EXCEPT !.pitch = pitch], Asleep(h, "aim", 0, 300))
      ELSE IF h.stage = "aim"
      THEN Sleeping(<<PlayerAction(entityId, blockPos)>>,
                    position, rotation, Asleep(h, "swing", 0, 500))
      ELSE IF h.i < 5
      THEN Sleeping(<<Animate(entityId)>>,
                    position, rotation, Asleep(h, "swing", h.i + 1, 400))
      ELSE Returned(position, rotation, h,
             Result(TRUE, Msg("Mining ${target}", <<h.text>>)))

\* ActionExecutor.attack
attack(h, position, rotation, entityId) ==
  IF h.stage = "start"
  THEN Sleeping(<<Animate(entityId)>>, position, rotation, Asleep(h, "end", 0, 500))
  ELSE Returned(position, rotation, h,
         Result(TRUE, Msg("Attacking nearby target", <<>>)))

\* ActionExecutor.chat
chat(h, position, rotation, entityId) ==
  IF h.stage = "start"
  THEN Sleeping(<<Text(IF h.text = <<>> THEN <<"H","e","l","l","o","!">> ELSE h.text)>>,
                position, rotation, Asleep(h, "end", 0, 500))
  ELSE Returned(position, rotation, h,
         Result(TRUE, Msg("Sent: ${message}", <<h.text>>)))

\* ActionExecutor.wait
wait(h, position, rotation, entityId) ==
  IF h.stage = "start"
  THEN Sleeping(<<>>, position, rotation, Asleep(h, "end", 0, 2000))
  ELSE Returned(position, rotation, h,
         Result(TRUE, Msg("Waiting and observing", <<>>)))

\* a handler from where it stands to its next sleep or its return
Run(h, position, rotation, entityId) ==
  CASE h.kind = "move"     -> move(h, position, rotation, entityId)
    [] h.kind = "jumpmove" -> jumpMove(h, position, rotation, entityId)
    [] h.kind = "mine"     -> mine(h, position, rotation, entityId)
    [] h.kind = "attack"   -> attack(h, position, rotation, entityId)
    [] h.kind = "chat"     -> chat(h, position, rotation, entityId)
    [] h.kind = "wait"     -> wait(h, position, rotation, entityId)


(***************************************************************************)
(* GeminiController                                                        *)
(***************************************************************************)
Plan(action, reasoning) == [action |-> action, reasoning |-> reasoning]

\* the reasoning of a plan: a text the code writes, or text of the reply
Literal(string) == [literal |-> string, text |-> <<>>]
Quoted(text) == [literal |-> "", text |-> text]

\* a line terminator: what the regular expression "." does not match
IsLineEnd(c) == c \in {"\n", "\r"}

\* the text w (in lower case) stands in s at p, whatever the case of s
StandsAt(s, p, w) ==
  /\ p + Len(w) - 1 <= Len(s)
  /\ \A i \in 1..Len(w) : LowerChar(s[p + i - 1]) = w[i]

\* the same, case-sensitive
StandsExactlyAt(s, p, w) ==
  /\ p + Len(w) - 1 <= Len(s)
  /\ \A i \in 1..Len(w) : s[p + i - 1] = w[i]

\* the number of white space characters from q on
RECURSIVE SpaceRun(_, _)
SpaceRun(s, q) ==
  IF q <= Len(s) /\ IsSpace(s[q]) THEN 1 + SpaceRun(s, q + 1) ELSE 0

\* the number of characters from q on up to the first line terminator
RECURSIVE DotRun(_, _)
DotRun(s, q) ==
  IF q <= Len(s) /\ ~IsLineEnd(s[q]) THEN 1 + DotRun(s, q + 1) ELSE 0

\* the number of characters from q on up to the first newline
RECURSIVE LineRun(_, _)
LineRun(s, q) ==
  IF q <= Len(s) /\ s[q] # "\n" THEN 1 + LineRun(s, q + 1) ELSE 0

W_marker == <<"a","c","t","i","o","n",":">>

\* (.+?)(?:\n|$) at q: the characters up to the end of the line, when there
\* is one at least and the line ends in a newline or with the text
CaptureAt(s, q) ==
  LET n == DotRun(s, q)
  IN  IF n >= 1 /\ (q + n > Len(s) \/ s[q + n] = "\n")
      THEN [found |-> TRUE, from |-> q, to |-> q + n - 1]
      ELSE [found |-> FALSE, from |-> 0, to |-> 0]

\* \s*(.+?)(?:\n|$) at q: the white space is taken greedily and given back
\* one character at a time while the rest does not match
MarkerRestAt(s, q) ==
  LET run   == SpaceRun(s, q)
      fits  == {k \in 0..run : CaptureAt(s, q + k).found}
  IN  IF fits = {}
      THEN [found |-> FALSE, from |-> 0, to |-> 0]
      ELSE CaptureAt(s, q + (CHOOSE k \in fits : \A j \in fits : j <= k))

\* response.match(/ACTION:\s*(.+?)(?:\n|$)/i): the leftmost match
MarkerMatch(s) ==
  LET at(p) == IF StandsAt(s, p, W_marker)
               THEN MarkerRestAt(s, p + Len(W_marker))
               ELSE [found |-> FALSE, from |-> 0, to |-> 0]
      hits  == {p \in 1..Len(s) : at(p).found}
  IN  IF hits = {}
      THEN [found |-> FALSE, from |-> 0, to |-> 0]
      ELSE at(CHOOSE p \in hits : \A r \in hits : p <= r)

\* response.split('ACTION:')[0]: the text before the first marker written in
\* capitals, the whole text when there is none
BeforeMarker(s) ==
  LET exact == <<"A","C","T","I","O","N",":">>
      hits  == {p \in 1..Len(s) : StandsExactlyAt(s, p, exact)}
  IN  IF hits = {} THEN s
      ELSE SubSeq(s, 1, (CHOOSE p \in hits : \A r \in hits : p <= r) - 1)

\* cmd\s+[^\n]+ at p, case-insensitive: the command word, white space (given
\* back while nothing follows it) and the rest of the line
CommandAt(s, p, cmd) ==
  LET q    == p + Len(cmd)
      run  == SpaceRun(s, q)
      fits == {k \in 1..run : LineRun(s, q + k) >= 1}
      k    == CHOOSE j \in fits : \A i \in fits : i <= j
  IN  IF StandsAt(s, p, cmd) /\ fits # {}
      THEN [found |-> TRUE, from |-> p,
            to |-> q + k + LineRun(s, q + k) - 1]
      ELSE [found |-> FALSE, from |-> 0, to |-> 0]

\* response.match(new RegExp(`${cmd}\\s+[^\\n]+`, 'i')): the leftmost match
CommandMatch(s, cmd) ==
  LET hits == {p \in 1..Len(s) : CommandAt(s, p, cmd).found}
  IN  IF hits = {}
      THEN [found |-> FALSE, from |-> 0, to |-> 0]
      ELSE CommandAt(s, CHOOSE p \in hits : \A r \in hits : p <= r, cmd)

\* the verbs parseAction scans for, in its order
commands == <<W_move, W_mine, W_explore, W_attack, W_chat, W_wait, W_jumpmove>>

\* GeminiController.parseAction
parseAction(response) ==
  LET actionMatch == MarkerMatch(response)
      matching    == {c \in 1..Len(commands) : CommandMatch(response, commands[c]).found}
      first       == CHOOSE c \in matching : \A d \in matching : c <= d
      match       == CommandMatch(response, commands[first])
  IN  IF actionMatch.found
      THEN Plan(trim(SubSeq(response, actionMatch.from, actionMatch.to)),
                Quoted(trim(BeforeMarker(response))))
      ELSE IF matching # {}
      THEN Plan(trim(SubSeq(response, match.from, match.to)), Literal("Extracted from response"))
      ELSE Plan(W_explore, Literal("Could not parse action, defaulting to explore"))

\* a fallback that reads the phase before the health
safeFallback_phaseFirst(health, gamePhase) ==
  IF gamePhase = "early" THEN Plan(W_mine \o SP \o W_wood, Literal("Need basic resources"))
  ELSE IF health < 10 THEN Plan(W_wait, Literal("Low health, being cautious"))
  ELSE Plan(W_explore, Literal("Safe exploration"))

\* GeminiController.safeFallback
safeFallback(health, gamePhase) ==
  IF health < 10 THEN Plan(W_wait, Literal("Low health, being cautious"))
  ELSE IF gamePhase = "early" THEN Plan(W_mine \o SP \o W_wood, Literal("Need basic resources"))
  ELSE Plan(W_explore, Literal("Safe exploration"))

\* a catch block that falls back at the ceiling, not beyond it
recover_atCeiling(errors, health, gamePhase) ==
  IF errors >= maxConsecutiveErrors THEN safeFallback(health, gamePhase)
  ELSE Plan(W_wait, Literal("Error recovery"))

\* the catch of GeminiController.think, given the count it has just raised
recover(errors, health, gamePhase) ==
  IF errors > maxConsecutiveErrors THEN safeFallback(health, gamePhase)
  ELSE Plan(W_wait, Literal("Error recovery"))

\* number.toFixed(1) of a coordinate, in tenths of a block: the nearest
\* tenth, the farther from zero of two equally near
toFixed1(u) ==
  IF ~IsNumber(u) THEN NaN
  ELSE IF u < 0 THEN 0 - ((2 - u) \div 4)
  ELSE (u + 2) \div 4

\* BotState.getContextForAI
getContextForAI(position, health, hunger, inventory, gamePhase, history) ==
  LET recent == SubSeq(history, IF Len(history) > 5 THEN Len(history) - 4 ELSE 1,
                       Len(history))
  IN  [position |-> Vec(toFixed1(position.x), toFixed1(position.y), toFixed1(position.z)),
       health |-> health, hunger |-> hunger, inventoryCount |-> Len(inventory),
       gamePhase |-> gamePhase,
       recentActions |-> [i \in 1..Len(recent) |->
                            <<recent[i].action, recent[i].result, recent[i].details>>],
       hasItems |-> Len(inventory) > 0,
       canSurvive |-> health > 5 /\ hunger > 5]

\* the trace log after think has pushed an entry and cut it to its capacity
remember(log, entry) ==
  LET pushed == Append(log, entry)
  IN  IF Len(pushed) > conversationCapacity
      THEN SubSeq(pushed, Len(pushed) - conversationCapacity + 1, Len(pushed))
      ELSE pushed


(***************************************************************************)
(* ActionExecutor: dispatch                                                *)
(***************************************************************************)
\* what actions[command] of performAction is: one of the seven handlers,
\* undefined, or what the object literal inherits from Object.prototype:
\* the function Object under "constructor", which returns an empty object,
\* and the prototype itself under "__proto__", which cannot be called
registered == {W_move, W_jumpmove, W_mine, W_explore, W_attack, W_chat, W_wait}

lookup(command) ==
  IF command \in registered
  THEN "handler"
  ELSE IF command = W_constructor THEN "Object"
  ELSE IF command = W_proto THEN "prototype"
  ELSE "undefined"

\* the command token of an action string
commandOf(actionString) == splitSpaces(trim(toLowerCase(actionString)))[1]

\* the handler performAction calls for an action string; random is what
\* Math.random gives explore: a direction and a distance
handlerOf(actionString, random) ==
  LET parts   == CHOOSE p \in {splitSpaces(trim(toLowerCase(actionString)))} : TRUE
      command == parts[1]
      args    == Tail(parts)
      arg(n)  == IF Len(args) >= n THEN args[n] ELSE undefined
  IN  CASE command = W_move ->
             Handler("move", arg(1), OrElse(parseInt(arg(2)), 5), <<>>)
        [] command = W_jumpmove ->
             Handler("jumpmove", arg(1), OrElse(parseInt(arg(2)), 5), <<>>)
        [] command = W_mine    -> Handler("mine", <<>>, 0, joinSpace(args))
        [] command = W_explore -> Handler("move", random.direction, random.distance, <<>>)
        [] command = W_attack  -> Handler("attack", <<>>, 0, <<>>)
        [] command = W_chat    -> Handler("chat", <<>>, 0, joinSpace(args))
        [] command = W_wait    -> Handler("wait", <<>>, 0, <<>>)

(***************************************************************************)
(* The state                                                               *)
(***************************************************************************)
VARIABLES
  process,              \* "running", or "exited" after process.exit
  session,              \* the session: "connecting", "spawned", "disconnected",
                        \* "failed" after a transport error, "closed"
  isRunning,            \* MinecraftBot.isRunning
  thinkCount,           \* MinecraftBot.thinkCount
  positionSyncInterval, \* the position sync timer is set
  pc,                   \* where aiLoop stands: "connecting", "thinking",
                        \* "executing", "sleeping", "cooldown", "ended"
  thinkContext,         \* the context think built before its call
  loopPlan,             \* the plan think returned to aiLoop last
  conversationHistory,  \* GeminiController.conversationHistory
  isBusy,               \* ActionExecutor.isBusy
  pending,              \* the execute call that awaits its race
  handlers,             \* the command handlers in progress, the first to sleep first
  position, rotation, health, hunger, inventory, gamePhase,
  actionHistory, consecutiveErrors, entityId,   \* BotState
  clock,                \* the time, in the ticks the model tells apart
  written,              \* the number of packets written to the session
  lastPacket,           \* the last of them
  invoked,              \* the number of calls of a command handler
  returned,             \* what the last execute call returned, to whom, for what
  commandsPosted,       \* the number of manual commands posted
  failStreak,           \* the reasoning calls that failed in a row
  appended,             \* every entry addToHistory was called with, in order
  botHistory,           \* BotState.actionHistory of src/bot.js
  botAppended,          \* every entry its addToHistory was called with
  botCurrent,           \* ActionExecutor.currentAction of src/bot.js
  botTimer,             \* the milliseconds of the timer its performAction races
  botConversation,      \* GeminiPlanner.conversationHistory of src/bot.js
  botPlanCalls,         \* the number of calls of GeminiPlanner.plan
  received              \* the packet the session delivered last

bot      == <<process, session, isRunning, thinkCount, positionSyncInterval, pc,
              thinkContext, loopPlan, conversationHistory>>
executor == <<isBusy, pending, handlers, invoked, returned>>
store    == <<position, rotation, health, hunger, inventory, gamePhase,
              actionHistory, consecutiveErrors, entityId>>
wire     == <<written, lastPacket>>
variant  == <<botHistory, botAppended, botCurrent, botTimer, botConversation,
              botPlanCalls>>
broader  == <<variant, received>>
vars     == <<bot, executor, store, wire, clock, commandsPosted, failStreak,
              appended, broader>>

NoPlan    == Plan(<<>>, <<>>)
NoBotPlan == BotPlan(<<>>, 0)
NoPending == [caller |-> "none", action |-> <<>>]
NoPacket  == [name |-> "none"]
NoContext == [position |-> Vec(0, 0, 0), health |-> 0, hunger |-> 0,
              inventoryCount |-> 0, gamePhase |-> "", recentActions |-> <<>>,
              hasItems |-> FALSE, canSurvive |-> FALSE]

\* the state once main has built the bot and connect has made the executor
Init ==
  /\ process = "running"
  /\ session = "connecting"
  /\ isRunning = FALSE
  /\ thinkCount = 0
  /\ positionSyncInterval = FALSE
  /\ pc = "connecting"
  /\ thinkContext = NoContext
  /\ loopPlan = NoPlan
  /\ conversationHistory = <<>>
  /\ isBusy = FALSE
  /\ pending = NoPending
  /\ handlers = <<>>
  /\ position = Vec(0, 0, 0)
  /\ rotation = Rot(0, 0)
  /\ health = 20
  /\ hunger = 20
  /\ inventory = <<>>
  /\ gamePhase = "early"
  /\ actionHistory = <<>>
  /\ consecutiveErrors = 0
  /\ entityId = 0
  /\ clock = 0
  /\ written = 0
  /\ lastPacket = NoPacket
  /\ invoked = 0
  /\ returned = [caller |-> "none", action |-> <<>>, result |-> EmptyObject]
  /\ commandsPosted = 0
  /\ failStreak = 0
  /\ appended = <<>>
  /\ botHistory = <<>>
  /\ botAppended = <<>>
  /\ botCurrent = NoBotPlan
  /\ botTimer = 0
  /\ botConversation = <<>>
  /\ botPlanCalls = 0
  /\ received = NoPacket


(***************************************************************************)
(* ActionExecutor.execute                                                  *)
(***************************************************************************)
\* an execute that never looks at the flag
rejects_never == FALSE
\* execute turns a call away
rejects == isBusy

\* consecutiveErrors after the try block: reset once performAction has
\* returned a result, left as it was when it threw
errorsAfter(errors, threw) == IF threw THEN errors ELSE 0

\* the outcome execute records for a result
markOf(result) == IF result.success THEN CheckMark ELSE CrossMark

\* isBusy after the finally block
\* a catch block that hands the error on as a result of the handler
caught_asResult(message) == Result(TRUE, message)
\* what the catch block of execute returns for an error
caught(message) == Result(FALSE, message)
\* an execute that clears the flag after the try block, not in a finally
busyAfter_noFinally(threw) == threw
busyAfter(threw) == FALSE

\* where aiLoop stands while the execute call it has made is pending: a
\* loop that did not await the call would go on to its sleep
loopAwaits_detached == "sleeping"
\* aiLoop awaits execute(decision) before it sleeps
loopAwaits == "executing"

\* the end of an execute call, in its try block (performAction has returned
\* result) or in its catch block (it threw, result is the failure returned),
\* and the step of the caller that awaited it
Settle(caller, action, errors, threw, result) ==
  /\ consecutiveErrors' = errorsAfter(errors, threw)
  /\ actionHistory' = addToHistory(actionHistory, clock, action,
                                   IF threw THEN ErrorMark ELSE markOf(result),
                                   result.message, gamePhase, position)
  /\ appended' = Append(appended,
                        historyEntry(clock, action,
                                     IF threw THEN ErrorMark ELSE markOf(result),
                                     result.message, gamePhase, position))
  /\ clock' = clock + 1
  /\ returned' = [caller |-> caller, action |-> action, result |-> result]
  /\ isBusy' = busyAfter(threw)
  /\ pending' = NoPending
  /\ pc' = IF caller = "loop" THEN "sleeping" ELSE pc

\* execute(plan), called by the loop or by /command, up to its first await
\* that a timer ends; errors is consecutiveErrors at the call
Execute(caller, plan, errors, random) ==
  IF rejects
  THEN /\ returned' = [caller |-> caller, action |-> plan.action,
                        result |-> BusyResult]
       /\ consecutiveErrors' = errors
       /\ pc' = IF caller = "loop" THEN "sleeping" ELSE pc
       /\ UNCHANGED <<isBusy, pending, handlers, invoked, position, rotation,
                      actionHistory, appended, clock, wire>>
  ELSE \E command \in {commandOf(plan.action)} : \E found \in {lookup(command)} :
       IF found = "undefined"
       THEN /\ Settle(caller, plan.action, errors, FALSE, UnknownCommand(command))
            /\ UNCHANGED <<handlers, invoked, position, rotation, wire>>
       ELSE IF found = "Object"
       THEN /\ Settle(caller, plan.action, errors, FALSE, EmptyObject)
            /\ invoked' = invoked + 1
            /\ UNCHANGED <<handlers, position, rotation, wire>>
       ELSE IF found = "prototype"
       THEN /\ Settle(caller, plan.action, errors, TRUE, caught(NotAFunction))
            /\ UNCHANGED <<handlers, invoked, position, rotation, wire>>
       ELSE \E eff \in {Run(handlerOf(plan.action, random), position, rotation, entityId)} :
            /\ invoked' = invoked + 1
            /\ position' = eff.position
            /\ rotation' = eff.rotation
            /\ written' = written + Len(eff.pkts)
            /\ lastPacket' = IF eff.pkts = <<>> THEN lastPacket ELSE eff.pkts[Len(eff.pkts)]
            /\ IF eff.done
               THEN /\ Settle(caller, plan.action, errors, FALSE, eff.result)
                    /\ handlers' = handlers
               ELSE /\ isBusy' = TRUE
                    /\ pending' = [caller |-> caller, action |-> plan.action]
                    /\ handlers' = Append(handlers, eff.handler)
                    /\ consecutiveErrors' = errors
                    /\ pc' = IF caller = "loop" THEN loopAwaits ELSE pc
                    /\ UNCHANGED <<actionHistory, appended, clock, returned>>

Without(seq, k) == SubSeq(seq, 1, k - 1) \o SubSeq(seq, k + 1, Len(seq))

\* the time at which the sleep of a handler ends, counted from its call
wakes(h) == h.elapsed + h.sleep

\* the sleep of the handler handlers[k] ends and it runs on: to its next
\* sleep, or to its return, which settles the execute call that races it
\* unless the timeout has settled it before.  Timers fire in the order
\* they run out: a handler that went to sleep earlier, for no longer, wakes
\* first, so handlers is kept in the order its members went to sleep
HandlerResumes(k) ==
  \E h \in {handlers[k]} : \E eff \in {Run(h, position, rotation, entityId)} :
      /\ process = "running"
      /\ h.raced => wakes(h) <= actionTimeout
      /\ \A j \in 1..(k - 1) : handlers[j].sleep > h.sleep
      /\ position' = eff.position
      /\ rotation' = eff.rotation
      /\ written' = written + Len(eff.pkts)
      /\ lastPacket' = IF eff.pkts = <<>> THEN lastPacket ELSE eff.pkts[Len(eff.pkts)]
      /\ IF ~eff.done
         THEN /\ handlers' = Append(Without(handlers, k),
                                    [eff.handler EXCEPT !.raced = h.raced])
              /\ UNCHANGED <<isBusy, pending, returned, consecutiveErrors,
                             actionHistory, appended, clock, pc>>
         ELSE /\ handlers' = Without(handlers, k)
              /\ IF h.raced
                 THEN Settle(pending.caller, pending.action, consecutiveErrors, FALSE, eff.result)
                 ELSE UNCHANGED <<isBusy, pending, returned, consecutiveErrors,
                                  actionHistory, appended, clock, pc>>
      /\ UNCHANGED <<broader, process, session, isRunning, thinkCount,
                     positionSyncInterval,
                     thinkContext, loopPlan, conversationHistory, invoked, health, hunger,
                     inventory, gamePhase, entityId, commandsPosted, failStreak>>

\* the timer of ActionExecutor.timeout ends before the handler it races has
\* settled: the race rejects, execute ends in its catch block, and the
\* handler goes on by itself
ActionTimeout(k) ==
  LET h == handlers[k]
  IN  /\ process = "running"
      /\ h.raced
      /\ wakes(h) >= actionTimeout
      /\ handlers' = [handlers EXCEPT ![k].raced = FALSE]
      /\ Settle(pending.caller, pending.action, consecutiveErrors, TRUE,
                caught(TimeoutError))
      /\ UNCHANGED <<broader, process, session, isRunning, thinkCount,
                     positionSyncInterval,
                     thinkContext, loopPlan, conversationHistory, invoked, position, rotation,
                     health, hunger, inventory, gamePhase, entityId, wire,
                     commandsPosted, failStreak>>

(***************************************************************************)
(* MinecraftBot: the control loop and the events                           *)
(***************************************************************************)
\* the head of an iteration of aiLoop, up to the await of the reasoning call
StartThink ==
  /\ thinkCount' = thinkCount + 1
  /\ thinkContext' = getContextForAI(position, health, hunger, inventory,
                                     gamePhase, actionHistory)
  /\ pc' = "thinking"

\* the session emits spawn: connect resolves and main enters aiLoop
Spawn ==
  /\ process = "running"
  /\ session = "connecting"
  /\ session' = "spawned"
  /\ isRunning' = TRUE
  /\ positionSyncInterval' = TRUE
  /\ StartThink
  /\ UNCHANGED <<broader, appended, process, loopPlan, conversationHistory, executor,
                 store, wire,
                 clock, commandsPosted, failStreak>>

\* the reasoning call returns a text: think parses it, logs it and returns
\* the plan, and aiLoop calls execute with it
GeminiReplies(response, random) ==
  /\ process = "running"
  /\ pc = "thinking"
  /\ \E plan \in {parseAction(response)} :
      /\ conversationHistory' =
           remember(conversationHistory,
                    [context |-> thinkContext, response |-> response,
                     action |-> plan, timestamp |-> clock])
      /\ failStreak' = 0
      /\ loopPlan' = plan
      /\ Execute("loop", plan, consecutiveErrors, random)
      /\ UNCHANGED <<broader, process, session, isRunning, thinkCount,
                     positionSyncInterval,
                     thinkContext, health, hunger, inventory, gamePhase, entityId,
                     commandsPosted>>

\* the reasoning call fails (an HTTP error, an empty reply): the catch block
\* of think counts it and returns a plan, and aiLoop calls execute with it
GeminiFails(random) ==
  LET errors == consecutiveErrors + 1
  IN  /\ process = "running"
      /\ pc = "thinking"
      /\ failStreak' = failStreak + 1
      /\ loopPlan' = recover(errors, health, gamePhase)
      /\ Execute("loop", recover(errors, health, gamePhase), errors, random)
      /\ UNCHANGED <<broader, process, session, isRunning, thinkCount,
                     positionSyncInterval,
                     thinkContext, conversationHistory, health, hunger, inventory,
                     gamePhase, entityId, commandsPosted>>

\* a sleep of aiLoop ends, the one between two cycles or the cooldown, and
\* the while condition is read
LoopWakes(limit) ==
  /\ process = "running"
  /\ pc \in {"sleeping", "cooldown"}
  /\ IF isRunning
     THEN /\ thinkCount < limit
          /\ StartThink
     ELSE /\ pc' = "ended"
          /\ UNCHANGED <<thinkCount, thinkContext>>
  /\ UNCHANGED <<broader, appended, process, session, isRunning, positionSyncInterval,
                 loopPlan,
                 conversationHistory, executor, store, wire, clock,
                 commandsPosted, failStreak>>

\* where aiLoop goes when a step of its iteration throws: a loop without
\* its try block would end, rejecting the promise of aiLoop
loopCaught_rethrown == "ended"
\* the catch block of aiLoop: it logs the error and sleeps five seconds
loopCaught == "cooldown"

\* a sleep of aiLoop ends, the while condition is read true and the cycle
\* throws outside the try blocks of think and execute (getContextForAI
\* reading a coordinate that is no number): the catch block of aiLoop
LoopThrows(limit) ==
  /\ process = "running"
  /\ pc \in {"sleeping", "cooldown"}
  /\ isRunning
  /\ thinkCount < limit
  /\ thinkCount' = thinkCount + 1
  /\ pc' = loopCaught
  /\ UNCHANGED <<broader, appended, process, session, isRunning, positionSyncInterval,
                 thinkContext, loopPlan,
                 conversationHistory, executor, store, wire, clock,
                 commandsPosted, failStreak>>

\* POST /command with an action
ManualCommand(action, random, limit) ==
  /\ process = "running"
  /\ commandsPosted < limit
  /\ commandsPosted' = commandsPosted + 1
  /\ Execute("manual", Plan(action, Literal("Manual command")), consecutiveErrors, random)
  /\ UNCHANGED <<broader, process, session, isRunning, thinkCount,
                     positionSyncInterval,
                 thinkContext, loopPlan, conversationHistory, health, hunger, inventory,
                 gamePhase, entityId, failStreak>>

\* the session emits disconnect
Disconnect ==
  /\ process = "running"
  /\ session \in {"connecting", "spawned"}
  /\ session' = "disconnected"
  /\ isRunning' = FALSE
  /\ positionSyncInterval' = FALSE
  /\ UNCHANGED <<broader, appended, process, thinkCount, pc, thinkContext, loopPlan,
                 conversationHistory,
                 executor, store, wire, clock, commandsPosted, failStreak>>

\* the session emits error: the handler logs the message
ClientError ==
  /\ process = "running"
  /\ session \in {"connecting", "spawned"}
  /\ session' = "failed"
  /\ UNCHANGED <<broader, appended, process, isRunning, positionSyncInterval,
                 thinkCount, pc, thinkContext, loopPlan, conversationHistory,
                 executor, store, wire, clock, commandsPosted, failStreak>>

\* SIGINT, once main has installed its handler: shutdown, then process.exit
Shutdown ==
  /\ process = "running"
  /\ pc # "connecting"
  /\ process' = "exited"
  /\ isRunning' = FALSE
  /\ positionSyncInterval' = FALSE
  /\ session' = "closed"
  /\ UNCHANGED <<broader, appended, thinkCount, pc, thinkContext, loopPlan,
                 conversationHistory,
                 executor, store, wire, clock, commandsPosted, failStreak>>


(***************************************************************************)
(* MinecraftBot.startPositionSync: the callback of the 100 ms interval     *)
(***************************************************************************)
\* the packet of the callback: the rotation is the one of the state, a yaw
\* and a pitch, and the position the one of the state
SyncPacket(runtime_id, at, facing) ==
  [name |-> "move_player", runtime_id |-> runtime_id, position |-> at,
   rotation |-> facing, on_ground |-> TRUE]

\* a callback that writes whenever it fires
syncDue_always(running, id) == TRUE
\* the test of the callback: isRunning, the position (an object in every
\* state) and the entity id, which is 0n until start_game brings one
syncDue(running, id) == running /\ id # 0

\* the interval fires, if it is set and has not been cleared
PositionSync(limit) ==
  /\ process = "running"
  /\ positionSyncInterval
  /\ written < limit
  /\ IF syncDue(isRunning, entityId)
     THEN /\ written' = written + 1
          /\ lastPacket' = SyncPacket(entityId, position, rotation)
     ELSE UNCHANGED wire
  /\ UNCHANGED <<bot, executor, store, clock, commandsPosted, failStreak,
                 appended, broader>>

(***************************************************************************)
(* MinecraftBot.setupEventHandlers: the packets of the session             *)
(***************************************************************************)
\* what the handlers of inbound packets leave alone
beyondStore == <<bot, executor, wire, clock, commandsPosted, failStreak,
                 actionHistory, appended, variant, consecutiveErrors>>

Connected == process = "running" /\ session \in {"connecting", "spawned"}

\* start_game: runtime_entity_id is 0 when the packet has none, and
\* player_position may be missing
StartGame(runtime_entity_id, hasPosition, player_position) ==
  /\ Connected
  /\ received' = [name |-> "start_game"]
  /\ entityId' = IF runtime_entity_id # 0 THEN runtime_entity_id ELSE entityId
  /\ position' = IF hasPosition THEN player_position ELSE position
  /\ rotation' = IF hasPosition THEN Rot(0, 0) ELSE rotation
  /\ UNCHANGED <<health, hunger, inventory, gamePhase, beyondStore>>

\* a move_player packet as the session delivers it
MovePlayerReceived(runtime_id, hasPosition, pos, hasRotation, rot) ==
  [name |-> "move_player", runtime_id |-> runtime_id,
   hasPosition |-> hasPosition, position |-> pos,
   hasRotation |-> hasRotation, rotation |-> rot]

\* a handler that takes the position of whatever entity the packet is about
MovePlayerPacket_anyEntity(runtime_id, hasPosition, pos, hasRotation, rot) ==
  /\ Connected
  /\ received' = MovePlayerReceived(runtime_id, hasPosition, pos, hasRotation, rot)
  /\ IF hasPosition
     THEN /\ position' = pos
          /\ rotation' = IF hasRotation THEN rot ELSE rotation
     ELSE UNCHANGED <<position, rotation>>
  /\ UNCHANGED <<health, hunger, inventory, gamePhase, entityId, beyondStore>>

\* move_player, of any entity; the rotation may be missing
MovePlayerPacket(runtime_id, hasPosition, pos, hasRotation, rot) ==
  /\ Connected
  /\ received' = MovePlayerReceived(runtime_id, hasPosition, pos, hasRotation, rot)
  /\ IF hasPosition /\ runtime_id = entityId
     THEN /\ position' = pos
          /\ rotation' = IF hasRotation THEN rot ELSE rotation
     ELSE UNCHANGED <<position, rotation>>
  /\ UNCHANGED <<health, hunger, inventory, gamePhase, entityId, beyondStore>>

\* set_health; the health may be missing
SetHealth(hasHealth, value) ==
  /\ Connected
  /\ received' = [name |-> "set_health"]
  /\ health' = IF hasHealth THEN value ELSE health
  /\ UNCHANGED <<position, rotation, hunger, inventory, gamePhase, entityId,
                 beyondStore>>

\* inventory_content; the items may be missing.  The object literal handed
\* to update is built first: determineGamePhase reads the inventory the
\* state holds before Object.assign stores the new one
InventoryContent(hasItems, items) ==
  /\ Connected
  /\ received' = [name |-> "inventory_content"]
  /\ inventory' = IF hasItems THEN items ELSE <<>>
  /\ gamePhase' = determineGamePhase(inventory)
  /\ UNCHANGED <<position, rotation, health, hunger, entityId, beyondStore>>

\* update_attributes; attributes is the list of the attributes of the
\* packet, or missing
UpdateAttributes(runtime_entity_id, hasAttributes, attributes) ==
  /\ Connected
  /\ received' = [name |-> "update_attributes"]
  /\ LET found == {i \in 1..Len(attributes) : attributes[i].name = "minecraft:health"}
         first == CHOOSE i \in found : \A j \in found : i <= j
     IN  health' = IF runtime_entity_id = entityId /\ hasAttributes /\ found # {}
                   THEN attributes[first].current
                   ELSE health
  /\ UNCHANGED <<position, rotation, hunger, inventory, gamePhase, entityId,
                 beyondStore>>

(***************************************************************************)
(* The inputs the model draws                                              *)
(***************************************************************************)
W_fly == <<"f","l","y">>
W_up  == <<"u","p">>
W_hi  == <<"h","i">>

A_wait     == W_wait
A_attack   == W_attack
A_chat     == W_chat \o SP \o W_hi
A_moveUp   == W_move \o SP \o W_up \o SP \o <<"2">>
A_move1    == <<"M","o","v","e">> \o SP \o W_north \o SP \o <<"1">>
A_jump1    == W_jumpmove \o SP \o W_north \o SP \o <<"1">>
\* the shortest jump-move that outlasts the action timeout: 101 blocks of
\* two sleeps of 150 ms
A_jumpLong == W_jumpmove \o SP \o W_north \o SP \o <<"1","0","1">>
A_fly      == W_fly
A_object   == W_constructor
A_proto    == W_proto

\* a reply of the reasoning service that ends in the marker and an action
Marked(action) == <<"O","k",".","\n","A","C","T","I","O","N",":"," ">> \o action

\* what Math.random gives explore: one of four directions, 3 to 9 blocks
Draws == [direction : {W_north, W_south, W_east, W_west}, distance : 3..9]
\* the draws the model follows
Drawn == {d \in Draws : d.direction = W_east /\ d.distance = 3}

(***************************************************************************)
(* The executor and the control loop, with commands that end in time       *)
(***************************************************************************)
\* the decision cycles the control loop is followed for
MaxThink == 2
\* the manual commands posted to /command
MaxCommands == 1

\* the replies of the reasoning service
Replies == {Marked(A_wait), Marked(A_move1)}

\* the actions posted to /command
Posted == {A_jump1, A_fly, A_object, A_proto}

Next ==
  \/ Spawn
  \/ \E response \in Replies, random \in Drawn : GeminiReplies(response, random)
  \/ \E random \in Drawn : GeminiFails(random)
  \/ LoopWakes(MaxThink)
  \/ \E action \in Posted, random \in Drawn : ManualCommand(action, random, MaxCommands)
  \/ \E k \in 1..Len(handlers) : HandlerResumes(k)
  \/ Disconnect
  \/ Shutdown

Spec == Init /\ [][Next]_vars

(***************************************************************************)
(* The executor with a command that outlasts the action timeout            *)
(***************************************************************************)
\* the replies of the reasoning service
LongReplies == {Marked(A_jumpLong)}

\* the actions posted to /command
LongPosted == {A_jump1}

NextTimeout ==
  \/ Spawn
  \/ \E response \in LongReplies, random \in Drawn : GeminiReplies(response, random)
  \/ LoopWakes(MaxThink)
  \/ \E action \in LongPosted, random \in Drawn : ManualCommand(action, random, MaxCommands)
  \/ \E k \in 1..Len(handlers) : HandlerResumes(k)
  \/ \E k \in 1..Len(handlers) : ActionTimeout(k)

SpecTimeout == Init /\ [][NextTimeout]_vars

\* the three ends of an execute call: a handler that returns (wait), one
\* that is timed out (the long jump-move) and one that throws (__proto__)
EndReplies == {Marked(A_jumpLong), Marked(A_wait), Marked(A_proto)}

NextEnds ==
  \/ Spawn
  \/ \E response \in EndReplies, random \in Drawn : GeminiReplies(response, random)
  \/ LoopWakes(MaxThink)
  \/ \E k \in 1..Len(handlers) : HandlerResumes(k)
  \/ \E k \in 1..Len(handlers) : ActionTimeout(k)

\* a timer that has run out fires: a sleeping handler goes on, and the timer
\* of the race rejects
FairEnds ==
  /\ Init /\ [][NextEnds]_vars
  /\ WF_vars(\E k \in 1..Len(handlers) : HandlerResumes(k))
  /\ WF_vars(\E k \in 1..Len(handlers) : ActionTimeout(k))

(***************************************************************************)
(* The control loop with a reasoning service that fails                    *)
(***************************************************************************)
\* the decision cycles the control loop is followed for: one more than it
\* takes the counter to pass maxConsecutiveErrors
MaxCycles == 7

\* the manual command stands for any command that is in progress while the
\* loop executes: how long the cycles of the loop last against the sleeps of
\* a handler is left open
BreakerReplies == {Marked(A_wait)}
BreakerPosted  == {A_jump1}

NextBreaker ==
  \/ Spawn
  \/ \E response \in BreakerReplies, random \in Drawn : GeminiReplies(response, random)
  \/ \E random \in Drawn : GeminiFails(random)
  \/ LoopWakes(MaxCycles)
  \/ \E action \in BreakerPosted, random \in Drawn :
       ManualCommand(action, random, MaxCommands)
  \/ \E k \in 1..Len(handlers) : HandlerResumes(k)

SpecBreaker == Init /\ [][NextBreaker]_vars

(***************************************************************************)
(* The state store under the packets of the session                        *)
(***************************************************************************)
ItemNames == {<<"D","i","a","m","o","n","d","_","s","w","o","r","d">>,
              <<"i","r","o","n","_","i","n","g","o","t">>,
              <<"n","e","t","h","e","r","i","t","e","_","a","x","e">>,
              <<"d","i","r","t">>,
              <<"e","l","y","t","r","a">>,
              undefined}
\* the number of items of an inventory_content packet
MaxItems == 1
Inventories == UNION {[1..n -> [name : ItemNames]] : n \in 0..MaxItems}

\* the health a packet holds: the server sends what it holds, which exceeds
\* twenty for a player whose maximum health is raised
Healths    == {0, 9, 20, 24}
EntityIds  == {0, 1, 2}
Positions  == {Vec(0, 0, 0), Vec(3 * Block, 64 * Block, 0 - 5 * Block)}
Rotations  == {Rot(90, 0)}
Attributes == {<<>>,
               <<[name |-> "minecraft:health", current |-> 9]>>,
               <<[name |-> "minecraft:movement", current |-> 1],
                 [name |-> "minecraft:health", current |-> 0],
                 [name |-> "minecraft:health", current |-> 20]>>}

NextStore ==
  \/ \E id \in EntityIds, has \in BOOLEAN, pos \in Positions : StartGame(id, has, pos)
  \/ \E id \in EntityIds, has \in BOOLEAN, pos \in Positions,
        hasRot \in BOOLEAN, rot \in Rotations :
       MovePlayerPacket(id, has, pos, hasRot, rot)
  \/ \E has \in BOOLEAN, value \in Healths : SetHealth(has, value)
  \/ \E has \in BOOLEAN, items \in Inventories : InventoryContent(has, items)
  \/ \E id \in EntityIds, has \in BOOLEAN, attributes \in Attributes :
       UpdateAttributes(id, has, attributes)

SpecStore == Init /\ [][NextStore]_vars

\* the packets that tell a position
NextPosition ==
  \/ \E id \in EntityIds, has \in BOOLEAN, pos \in Positions : StartGame(id, has, pos)
  \/ \E id \in EntityIds, has \in BOOLEAN, pos \in Positions,
        hasRot \in BOOLEAN, rot \in Rotations :
       MovePlayerPacket(id, has, pos, hasRot, rot)

SpecPosition == Init /\ [][NextPosition]_vars

(***************************************************************************)
(* The history log under calls of addToHistory                             *)
(***************************************************************************)
\* the calls of addToHistory that are followed: more than the log keeps
MaxAppends == 102

\* what a call of addToHistory leaves alone
beyondHistory == <<bot, executor, wire, commandsPosted, failStreak, received, position,
                   rotation, health, hunger, inventory, gamePhase,
                   consecutiveErrors, entityId>>

\* BotState.addToHistory(action, result, details) is called
Record(action, result, details) ==
  /\ process = "running"
  /\ clock < MaxAppends
  /\ botAppended = <<>>
  /\ actionHistory' = addToHistory(actionHistory, clock, action, result, details,
                                   gamePhase, position)
  /\ appended' = Append(appended, historyEntry(clock, action, result, details,
                                               gamePhase, position))
  /\ clock' = clock + 1
  /\ UNCHANGED <<broader, beyondHistory>>

\* BotState.addToHistory(action, result) of src/bot.js is called: the two
\* variants are two programs, and a run is a run of one of them
BotRecord(action, result) ==
  /\ process = "running"
  /\ clock < MaxAppends
  /\ appended = <<>>
  /\ botHistory' = botAddToHistory(botHistory, clock, action, result, gamePhase)
  /\ botAppended' = Append(botAppended,
                           botHistoryEntry(clock, action, result, gamePhase))
  /\ clock' = clock + 1
  /\ UNCHANGED <<actionHistory, appended, beyondHistory, botCurrent, botTimer,
                 botConversation, botPlanCalls>>

NextHistory ==
  \/ Record(A_wait, CheckMark, Msg("Waiting and observing", <<>>))
  \/ BotRecord(A_wait, "success")

SpecHistory == Init /\ [][NextHistory]_vars

(***************************************************************************)
(* The executor of src/bot.js and the timer of its race                    *)
(***************************************************************************)
\* the command token of an action string: the head of split(' ') of its
\* lower case
botCommandOf(actionString) ==
  LET low    == toLowerCase(actionString)
      spaces == {i \in 1..Len(low) : low[i] = " "}
  IN  IF spaces = {}
      THEN low
      ELSE SubSeq(low, 1, (CHOOSE i \in spaces : \A j \in spaces : i <= j) - 1)

\* the keys of the actions table of performAction
botRegistered == {W_mine, <<"c","r","a","f","t">>, W_move, W_explore,
                  <<"c","o","m","b","a","t">>, <<"b","u","i","l","d">>,
                  <<"e","a","t">>, <<"s","l","e","e","p">>}

\* the milliseconds performAction gives the timer of its race for a plan
botTimeout(plan) == plan.estimatedTime

\* the plans execute is called with: the object parsePlan reads from a JSON
\* reply (estimatedTime is what the reply says), its plan for a reply of
\* text, its plan when JSON.parse throws, the plan of fallbackPlan, and the
\* plan of POST /command
botJsonPlan(action, seconds) == BotPlan(action, seconds)
botTextPlan(firstLine) == BotPlan(firstLine, 30)
botDefaultPlan == BotPlan(W_explore, 20)
botFallbackPlan(phase) ==
  BotPlan(IF phase = "early" THEN W_mine \o SP \o W_wood
          ELSE IF phase = "mid" THEN W_mine \o SP \o <<"i","r","o","n">>
          ELSE W_explore, 30)
botManualPlan(action) == BotPlan(action, 30)

BotPlans == {botJsonPlan(W_mine \o SP \o W_wood, 5),
             botJsonPlan(W_explore, 30000),
             botTextPlan(W_explore), botDefaultPlan, botFallbackPlan("early"),
             botManualPlan(W_fly)}

\* the execute calls of src/bot.js that are followed
MaxBotPlans == 2

\* what execute of src/bot.js leaves alone
beyondBot == <<bot, executor, store, wire, commandsPosted, failStreak, appended,
               received>>

\* ActionExecutor.execute(plan) of src/bot.js up to the race of
\* performAction, or to its end for a command the table does not hold; one
\* call is followed at a time
BotExecute(plan) ==
  /\ process = "running"
  /\ session = "connecting" /\ commandsPosted = 0
  /\ botCurrent = NoBotPlan
  /\ Len(botAppended) < MaxBotPlans
  /\ IF botCommandOf(plan.action) \in botRegistered
     THEN /\ botCurrent' = plan
          /\ botTimer' = botTimeout(plan)
          /\ UNCHANGED <<botHistory, botAppended, clock>>
     ELSE /\ botHistory' = botAddToHistory(botHistory, clock, plan.action,
                                           "failed", gamePhase)
          /\ botAppended' = Append(botAppended,
                                   botHistoryEntry(clock, plan.action, "failed",
                                                   gamePhase))
          /\ clock' = clock + 1
          /\ UNCHANGED <<botCurrent, botTimer>>
  /\ UNCHANGED <<beyondBot, botConversation, botPlanCalls>>

\* the race of performAction settles and execute ends: the action function
\* has returned a result, or the timer has rejected ("error"); how long the
\* action functions of src/bot.js take is left open
BotSettles(result) ==
  /\ process = "running"
  /\ botCurrent # NoBotPlan
  /\ botHistory' = botAddToHistory(botHistory, clock, botCurrent.action, result,
                                   gamePhase)
  /\ botAppended' = Append(botAppended,
                           botHistoryEntry(clock, botCurrent.action, result,
                                           gamePhase))
  /\ clock' = clock + 1
  /\ botCurrent' = NoBotPlan
  /\ botTimer' = 0
  /\ UNCHANGED <<beyondBot, botConversation, botPlanCalls>>

\* a run is a run of one of the two variants
NextRace ==
  \/ botAppended = <<>> /\ botCurrent = NoBotPlan /\ NextTimeout
  \/ \E plan \in BotPlans : BotExecute(plan)
  \/ \E result \in {"success", "failed", "error"} : BotSettles(result)

SpecRace == Init /\ [][NextRace]_vars

(***************************************************************************)
(* The trace log of the decisions                                          *)
(***************************************************************************)
\* the decision cycles that are followed: more than the trace log of the
\* main program keeps
MaxTrace == 22

\* the cycles in which the reasoning call may fail
FailingCycles == 1..2

TraceReplies == {Marked(A_fly)}

\* the entry GeminiPlanner.plan of src/bot.js pushes; of the prompt, what
\* its first 200 characters show of the state
botTraceEntry(now, response, at, hp, food) ==
  [prompt |-> [position |-> at, health |-> hp, hunger |-> food],
   response |-> response, timestamp |-> now]

\* GeminiPlanner.plan of src/bot.js when callGemini returns a text: the
\* entry is pushed and the plan of parsePlan returned
BotPlanReplies(response) ==
  /\ process = "running"
  /\ session = "connecting" /\ commandsPosted = 0
  /\ botPlanCalls < MaxTrace
  /\ botPlanCalls' = botPlanCalls + 1
  /\ botConversation' = Append(botConversation,
                               botTraceEntry(clock, response, position, health, hunger))
  /\ clock' = clock + 1
  /\ UNCHANGED <<beyondBot, botHistory, botAppended, botCurrent, botTimer>>

\* GeminiPlanner.plan of src/bot.js when callGemini throws: fallbackPlan
BotPlanFails ==
  /\ process = "running"
  /\ session = "connecting" /\ commandsPosted = 0
  /\ botPlanCalls \in FailingCycles
  /\ botPlanCalls' = botPlanCalls + 1
  /\ UNCHANGED <<beyondBot, botHistory, botAppended, botCurrent, botTimer,
                 botConversation, clock>>

\* a run is a run of one of the two variants
NextTrace ==
  \/ botPlanCalls = 0 /\ Spawn
  \/ \E response \in TraceReplies, random \in Drawn : GeminiReplies(response, random)
  \/ thinkCount \in FailingCycles /\ \E random \in Drawn : GeminiFails(random)
  \/ LoopWakes(MaxTrace)
  \/ \E k \in 1..Len(handlers) : HandlerResumes(k)
  \/ \E response \in TraceReplies : BotPlanReplies(response)
  \/ BotPlanFails

SpecTrace == Init /\ [][NextTrace]_vars

(***************************************************************************)
(* The control loop under replies of every shape parseAction tells apart   *)
(***************************************************************************)
W_ACTION == <<"A","C","T","I","O","N",":">>
LF   == <<"\n">>
CRLF == <<"\r","\n">>
\* a sentence of reasoning that names a command with its arguments
Thought == <<"I"," ","c","o","u","l","d"," ">> \o W_move \o SP \o W_north
           \o SP \o <<"3",".">>

\* "mine wood now... ACTION: explore"
R_scenario == W_mine \o SP \o W_wood \o <<" ","n","o","w",".",".","."," ">>
              \o W_ACTION \o SP \o W_explore
\* reasoning and marker on two lines that end in a newline
R_lines    == Thought \o LF \o W_ACTION \o SP \o W_wait \o LF
\* the same text with lines that end in carriage return and newline
R_crlf     == Thought \o CRLF \o W_ACTION \o SP \o W_wait \o CRLF
\* a marker line alone, ended by carriage return and newline
R_crlfOnly == W_ACTION \o SP \o W_wait \o CRLF
\* no marker, one command with an argument
R_bare     == <<"I"," ","w","i","l","l"," ">> \o W_mine \o SP \o W_stone
\* no marker and no command
R_none     == <<"H","e","l","l","o">>

\* the replies of the reasoning service
ParserReplies == {R_scenario, R_lines, R_crlf, R_crlfOnly, R_bare, R_none}

NextParser ==
  \/ Spawn
  \/ \E response \in ParserReplies, random \in Drawn : GeminiReplies(response, random)
  \/ LoopWakes(MaxThink)
  \/ \E k \in 1..Len(handlers) : HandlerResumes(k)

SpecParser == Init /\ [][NextParser]_vars

(***************************************************************************)
(* move commands posted to /command, with no inbound packet in between     *)
(***************************************************************************)
\* the directions and the numbers of blocks of the commands: fewer than ten
\* blocks (four steps a block) and more (forty steps in all)
MoveDirections == {W_north, W_south, W_east, W_west}
Distances == {1, 3, 11}

\* "move <direction> <blocks>"
MoveText(direction, blocks) == W_move \o SP \o direction \o SP \o NumText(blocks)

MovePosted == {MoveText(d, n) : d \in MoveDirections, n \in Distances}

NextMove ==
  \/ \E action \in MovePosted, random \in Drawn : ManualCommand(action, random, MaxCommands)
  \/ \E k \in 1..Len(handlers) : HandlerResumes(k)

SpecMove == Init /\ [][NextMove]_vars

\* "jumpmove <direction> <blocks>", for one block and for more
JumpDistances == {1, 3, 12}
JumpText(direction, blocks) == W_jumpmove \o SP \o direction \o SP \o NumText(blocks)
JumpPosted == {JumpText(d, n) : d \in MoveDirections, n \in JumpDistances}

NextJump ==
  \/ \E action \in JumpPosted, random \in Drawn : ManualCommand(action, random, MaxCommands)
  \/ \E k \in 1..Len(handlers) : HandlerResumes(k)

SpecJump == Init /\ [][NextJump]_vars

(***************************************************************************)
(* The control loop under faults: cycles that fail each in its way, the    *)
(* events of the session and the stop signal                               *)
(***************************************************************************)
\* the replies of the reasoning service: a text parseAction finds no command
\* in, a command that is not registered and a command that outlasts the
\* action timeout (a reasoning call that fails is answered by wait)
SessionReplies == {R_none, Marked(A_fly), Marked(A_jumpLong)}

\* the loop, the stop signal and the disconnect event
NextLoop ==
  \/ Spawn
  \/ \E response \in SessionReplies, random \in Drawn : GeminiReplies(response, random)
  \/ \E random \in Drawn : GeminiFails(random)
  \/ LoopWakes(MaxThink)
  \/ LoopThrows(MaxThink)
  \/ \E k \in 1..Len(handlers) : HandlerResumes(k)
  \/ \E k \in 1..Len(handlers) : ActionTimeout(k)
  \/ Disconnect
  \/ Shutdown

\* the same with the error event of the session
NextSession ==
  \/ NextLoop
  \/ ClientError

SpecSession == Init /\ [][NextSession]_vars

\* every timer fires, and no reasoning call is awaited for ever: the request
\* of callGemini settles, by its reply or by the timeouts of the HTTP client
FairSession ==
  /\ Init /\ [][NextLoop]_vars
  /\ WF_vars(\E k \in 1..Len(handlers) : HandlerResumes(k))
  /\ WF_vars(\E k \in 1..Len(handlers) : ActionTimeout(k))
  /\ WF_vars(LoopWakes(MaxThink) \/ LoopThrows(MaxThink))
  /\ []<>~(process = "running" /\ pc = "thinking")

(***************************************************************************)
(* The control loop when every reasoning call fails, with manual commands  *)
(* in progress that turn the recovery plans away                           *)
(***************************************************************************)
NextFailing ==
  \/ Spawn
  \/ \E random \in Drawn : GeminiFails(random)
  \/ LoopWakes(MaxCycles)
  \/ \E action \in BreakerPosted, random \in Drawn :
       ManualCommand(action, random, MaxCommands)
  \/ \E k \in 1..Len(handlers) : HandlerResumes(k)

SpecFailing == Init /\ [][NextFailing]_vars

(***************************************************************************)
(* The same loop after a login in which packets have set the health and    *)
(* the inventory                                                           *)
(***************************************************************************)
\* the health of the set_health packets: either side of the threshold of
\* safeFallback
FallbackHealths == {9, 10}
\* the items of the inventory_content packets
FallbackInventories == {<<>>, <<[name |-> <<"i","r","o","n","_","i","n","g","o","t">>]>>}

\* the packets are followed up to the spawn event
NextFallback ==
  \/ NextFailing
  \/ /\ session = "connecting"
     /\ \E value \in FallbackHealths : SetHealth(TRUE, value)
  \/ /\ session = "connecting"
     /\ \E items \in FallbackInventories : InventoryContent(TRUE, items)

SpecFallback == Init /\ [][NextFallback]_vars

(***************************************************************************)
(* Manual commands of every outcome: a result of success, a result of      *)
(* failure, an exception and the timeout, while packets change the phase   *)
(***************************************************************************)
\* the actions posted to /command: a command that succeeds, one that is not
\* registered, one whose direction is invalid, one that throws and one that
\* outlasts the action timeout
OutcomePosted == {A_jump1, A_fly, A_moveUp, A_proto, A_jumpLong}

NextOutcomes ==
  \/ \E action \in OutcomePosted, random \in Drawn :
       ManualCommand(action, random, MaxCommands)
  \/ \E k \in 1..Len(handlers) : HandlerResumes(k)
  \/ \E k \in 1..Len(handlers) : ActionTimeout(k)
  \/ \E items \in FallbackInventories : InventoryContent(TRUE, items)

SpecOutcomes == Init /\ [][NextOutcomes]_vars

(***************************************************************************)
(* The error counter under the ends of an execute call                     *)
(***************************************************************************)
\* a reply that names no command of the dispatch table
ResetReplies == {Marked(A_fly)}

\* a command that is in progress while the loop executes, and is timed out;
\* it is posted once the session has spawned
ResetPosted == {A_jumpLong}

NextResets ==
  \/ Spawn
  \/ \E response \in ResetReplies, random \in Drawn : GeminiReplies(response, random)
  \/ \E random \in Drawn : GeminiFails(random)
  \/ LoopWakes(MaxThink)
  \/ /\ session = "spawned"
     /\ \E action \in ResetPosted, random \in Drawn :
          ManualCommand(action, random, MaxCommands)
  \/ \E k \in 1..Len(handlers) : HandlerResumes(k)
  \/ \E k \in 1..Len(handlers) : ActionTimeout(k)

SpecResets == Init /\ [][NextResets]_vars

(***************************************************************************)
(* The control loop under replies without a marker that name commands      *)
(***************************************************************************)
\* "mine wood then move north 3": two verbs, the later of the list first
R_mineMove == W_mine \o SP \o W_wood \o <<" ","t","h","e","n"," ">> \o W_move
              \o SP \o W_north \o SP \o <<"3">>
\* "wait 2 or chat hi"
R_waitChat == W_wait \o <<" ","2"," ","o","r"," ">> \o W_chat \o SP \o W_hi
\* "wait 2 or jumpmove north 2"
R_waitJump == W_wait \o <<" ","2"," ","o","r"," ">> \o W_jumpmove \o SP
              \o W_north \o SP \o <<"2">>
\* "jumpmove north 2": one command phrase and nothing else
R_jumpOnly == W_jumpmove \o SP \o W_north \o SP \o <<"2">>

ScanReplies == {R_mineMove, R_waitChat, R_waitJump, R_jumpOnly}

NextScan ==
  \/ Spawn
  \/ \E response \in ScanReplies, random \in Drawn : GeminiReplies(response, random)
  \/ LoopWakes(MaxThink)
  \/ \E k \in 1..Len(handlers) : HandlerResumes(k)

SpecScan == Init /\ [][NextScan]_vars

(***************************************************************************)
(* What the steps of a behaviour are                                       *)
(***************************************************************************)
\* this step holds a call of execute by the control loop
LoopExecutes == pc = "thinking" /\ pc' # "thinking"
\* this step holds a call of execute by POST /command
ManualExecutes == commandsPosted' = commandsPosted + 1
\* the counter execute finds: think's catch block has counted its failure
\* before aiLoop calls execute
errorsAtCall ==
  IF LoopExecutes /\ failStreak' = failStreak + 1
  THEN consecutiveErrors + 1
  ELSE consecutiveErrors

\* the action string of the plan execute is called with in this step
calledAction ==
  IF LoopExecutes THEN loopPlan'.action
  ELSE IF pending' # NoPending THEN pending'.action
  ELSE returned'.action

(***************************************************************************)
(* C1: a call of execute while isBusy is true, by the control loop or by   *)
(* POST /command, returns {success: false, message: "Busy"}, invokes no     *)
(* command handler, writes nothing to the session, queues nothing, and     *)
(* leaves actionHistory and consecutiveErrors as execute found them.       *)
(***************************************************************************)
C1_BusyTurnedAway ==
  [][ (isBusy /\ (LoopExecutes \/ ManualExecutes)) =>
        /\ returned'.result = BusyResult
        /\ returned'.caller = IF LoopExecutes THEN "loop" ELSE "manual"
        /\ invoked' = invoked
        /\ written' = written /\ lastPacket' = lastPacket
        /\ handlers' = handlers /\ pending' = pending
        /\ position' = position /\ rotation' = rotation
        /\ actionHistory' = actionHistory
        /\ consecutiveErrors' = errorsAtCall
        /\ isBusy' ]_vars

\* the control loop was turned away while a manual command is in progress
C1_Witness ==
  /\ returned = [caller |-> "loop", action |-> A_wait, result |-> BusyResult]
  /\ isBusy
  /\ pending.caller = "manual"
  /\ Len(handlers) = 1

(***************************************************************************)
(* C2: at most one command handler is in progress, still able to write to  *)
(* the session or to move the position of the state, at any instant.       *)
(***************************************************************************)
C2_OneHandler == Len(handlers) <= 1

\* the handlers of handlers that an execute call still races
Raced(hs) == Cardinality({k \in 1..Len(hs) : hs[k].raced})

\* in this step the timer of the race ends an execute call: its handler
\* stays, and is raced no more
TimesOut == Raced(handlers') < Raced(handlers) /\ Len(handlers') = Len(handlers)

(***************************************************************************)
(* C3: the busy flag never stays set.  isBusy is true only while a call of *)
(* execute is in progress, and every call that sets it clears it in the    *)
(* end, whether its handler returns, throws or is timed out.               *)
(***************************************************************************)
C3_BusyCleared ==
  /\ [](isBusy <=> pending # NoPending)
  /\ (isBusy ~> ~isBusy)

\* the flag is clear after a call that the timeout ended
C3_Witness ==
  /\ ~isBusy
  /\ returned.result = Result(FALSE, TimeoutError)
  /\ Len(handlers) = 1

(***************************************************************************)
(* C4: when a handler has not settled at the action timeout, execute       *)
(* returns a failure, records one failed history entry for the action,     *)
(* leaves isBusy false, and the control loop goes on to its next cycle.    *)
(***************************************************************************)
C4_TimeoutFails ==
  [][ TimesOut =>
        /\ returned' = [caller |-> pending.caller, action |-> pending.action,
                        result |-> Result(FALSE, TimeoutError)]
        /\ ~returned'.result.success
        /\ Len(actionHistory') = Min(Len(actionHistory) + 1, historyCapacity)
        /\ actionHistory'[Len(actionHistory')].action = pending.action
        /\ actionHistory'[Len(actionHistory')].result = ErrorMark
        /\ actionHistory'[Len(actionHistory')].details = TimeoutError
        /\ ~isBusy'
        /\ pending' = NoPending
        /\ pending.caller = "loop" => (pc = "executing" /\ pc' = "sleeping") ]_vars

\* the loop has begun the cycle after the one whose action was timed out
C4_Witness ==
  /\ Len(actionHistory) >= 1
  /\ actionHistory[1].result = ErrorMark
  /\ actionHistory[1].action = A_jumpLong
  /\ thinkCount = 2
  /\ pc = "thinking"

\* this step begins a decide: aiLoop calls think
StartsDecide == thinkCount' = thinkCount + 1

(***************************************************************************)
(* C5: when consecutiveErrors exceeds maxConsecutiveErrors as a decide     *)
(* begins, the decide does not call the reasoning service and returns the  *)
(* deterministic fallback plan.                                            *)
(***************************************************************************)
C5_BreakerSkipsCall ==
  [][ (StartsDecide /\ consecutiveErrors > maxConsecutiveErrors) =>
        /\ pc' # "thinking"
        /\ loopPlan' = safeFallback(health, gamePhase) ]_vars

(***************************************************************************)
(* C6: when every reasoning call fails, then after more than               *)
(* maxConsecutiveErrors cycles in a row decide returns the deterministic   *)
(* fallback plan, not the holding action wait.                             *)
(***************************************************************************)
C6_Escalates ==
  (failStreak = thinkCount /\ failStreak > maxConsecutiveErrors /\ pc # "thinking")
    => loopPlan = safeFallback(health, gamePhase)

(***************************************************************************)
(* C7: after a cycle whose reasoning call succeeded and whose decide        *)
(* returned a parsed plan, consecutiveErrors is 0 when the next decide     *)
(* begins, whatever came of executing the plan.                            *)
(***************************************************************************)
C7_SuccessResets ==
  [][ (StartsDecide /\ thinkCount > 0 /\ failStreak = 0) =>
        consecutiveErrors = 0 ]_vars

(***************************************************************************)
(* C8: after every sequence of inbound packets and update calls, gamePhase *)
(* is determineGamePhase() of the inventory the state holds, right after   *)
(* an inventory_content packet in particular.                              *)
(***************************************************************************)
C8_PhaseOfInventory == gamePhase = determineGamePhase(inventory)

\* the last n entries of a log
LastOf(log, n) == SubSeq(log, Len(log) - n + 1, Len(log))

(***************************************************************************)
(* C9: after any sequence of addToHistory calls the log is no longer than  *)
(* its capacity (100; 50 in src/bot.js) and is the most recent             *)
(* min(n, capacity) of the n entries appended, in the order they were      *)
(* appended and as they were appended: the oldest entry goes first.        *)
(***************************************************************************)
C9_HistoryFIFO ==
  /\ Len(actionHistory) <= 100
  /\ actionHistory = LastOf(appended, Min(Len(appended), 100))
  /\ Len(botHistory) <= 50
  /\ botHistory = LastOf(botAppended, Min(Len(botAppended), 50))

\* two entries have been evicted
C9_Witness ==
  /\ Len(appended) = historyCapacity + 2
  /\ Len(actionHistory) = historyCapacity
  /\ actionHistory[1].timestamp = 2

(***************************************************************************)
(* C10: for a plan whose leading token is none of move, jumpmove, mine,    *)
(* explore, attack, chat and wait, execute returns {success: false,        *)
(* message: "Unknown command: <token>"}, writes nothing to the session     *)
(* and records a failed history entry.  (The calls that find isBusy set    *)
(* are left aside: they are turned away before the token is read.)         *)
(***************************************************************************)
C10_UnknownCommand ==
  [][ ((LoopExecutes \/ ManualExecutes) /\ ~isBusy
        /\ commandOf(calledAction) \notin registered) =>
        /\ returned' = [caller |-> IF LoopExecutes THEN "loop" ELSE "manual",
                        action |-> calledAction,
                        result |-> UnknownCommand(commandOf(calledAction))]
        /\ written' = written
        /\ Len(actionHistory') = Len(actionHistory) + 1
        /\ actionHistory'[Len(actionHistory')].action = calledAction
        /\ actionHistory'[Len(actionHistory')].result = CrossMark ]_vars

(***************************************************************************)
(* The reply texts and their lines                                         *)
(***************************************************************************)
\* the reply holds the marker ACTION:
HasMarker(s) == \E p \in 1..Len(s) : StandsExactlyAt(s, p, W_ACTION)
\* where the first marker of the reply stands
MarkerAt(s) ==
  CHOOSE p \in 1..Len(s) :
    /\ StandsExactlyAt(s, p, W_ACTION)
    /\ \A r \in 1..(p - 1) : ~StandsExactlyAt(s, r, W_ACTION)
\* what follows the first marker on its line, a line ending at a carriage
\* return, at a newline or with the text, without the white space around it
MarkerCommand(s) ==
  LET q == MarkerAt(s) + Len(W_ACTION)
      e == CHOOSE n \in (q - 1)..Len(s) :
             /\ \A i \in q..n : s[i] \notin {"\n", "\r"}
             /\ (n = Len(s) \/ s[n + 1] \in {"\n", "\r"})
  IN  trim(SubSeq(s, q, e))

(***************************************************************************)
(* C11: for every reply text that contains an ACTION: marker, the action   *)
(* of the plan parseAction returns is the command that follows the marker  *)
(* on its line, also when a known command verb with arguments stands       *)
(* earlier in the text.                                                    *)
(***************************************************************************)
C11_MarkerWins ==
  \A i \in 1..Len(conversationHistory) :
    HasMarker(conversationHistory[i].response) =>
      conversationHistory[i].action.action =
        MarkerCommand(conversationHistory[i].response)

(***************************************************************************)
(* C12: for every reply text of a successful reasoning call think returns  *)
(* a plan: the command of the marker when the text holds an ACTION:        *)
(* marker, otherwise a known command verb with the arguments that follow   *)
(* it in the text, otherwise explore with the note that parsing failed.    *)
(***************************************************************************)
\* the text holds one of the verbs followed by arguments
VerbsIn(s) ==
  {m \in {CommandAt(s, p, commands[c]) : p \in 1..Len(s), c \in 1..Len(commands)} :
     m.found}

C12_Ladder ==
  \A i \in 1..Len(conversationHistory) :
    LET s    == conversationHistory[i].response
        plan == conversationHistory[i].action
    IN  IF HasMarker(s)
        THEN plan.action = MarkerCommand(s)
        ELSE IF VerbsIn(s) # {}
        THEN \E m \in VerbsIn(s) : plan.action = trim(SubSeq(s, m.from, m.to))
        ELSE plan = Plan(W_explore,
                         Literal("Could not parse action, defaulting to explore"))

(***************************************************************************)
(* C13: for every direction d of north, south, east and west and every     *)
(* integer n >= 1, a move handler that runs to its end with no inbound     *)
(* position packet in between leaves the position n blocks from where it   *)
(* started along the axis of d (north: z less by n, south: z more by n,    *)
(* east: x more by n, west: x less by n), with the other horizontal        *)
(* coordinate and y as they were.                                          *)
(***************************************************************************)
\* where the position was when the handler now ending was started: where the
\* last action that ended left it (no packet moves it in SpecMove)
StartedAt ==
  IF actionHistory = <<>> THEN Vec(0, 0, 0)
  ELSE actionHistory[Len(actionHistory)].position

\* the position n blocks from p in the direction d
Displaced(p, d, n) ==
  IF d = W_north THEN Vec(p.x, p.y, p.z - n * Block)
  ELSE IF d = W_south THEN Vec(p.x, p.y, p.z + n * Block)
  ELSE IF d = W_east THEN Vec(p.x + n * Block, p.y, p.z)
  ELSE Vec(p.x - n * Block, p.y, p.z)

C13_MoveDisplaces ==
  [][ \A d \in MoveDirections, n \in Distances :
        (pending.action = MoveText(d, n) /\ pending' = NoPending) =>
          /\ returned'.result.success
          /\ position' = Displaced(StartedAt, d, n) ]_vars

\* a move of eleven blocks to the north has ended, eleven blocks north
C13_Witness ==
  /\ returned.action = MoveText(W_north, 11)
  /\ returned.result.success
  /\ pending = NoPending
  /\ position = Vec(0, 0, 0 - 11 * Block)

(***************************************************************************)
(* C14: in every reachable state, after any sequence of inbound health     *)
(* events (set_health, update_attributes) and updates, health and hunger   *)
(* are both within [0, 20].                                                *)
(***************************************************************************)
C14_Clamped == health \in 0..20 /\ hunger \in 0..20

(***************************************************************************)
(* C15: after a disconnect event or a transport error event of the         *)
(* session, isRunning is false and the control loop starts no further      *)
(* cycle.                                                                  *)
(***************************************************************************)
SessionFault == session \in {"disconnected", "failed"}

C15_FaultStops ==
  /\ [](SessionFault => ~isRunning)
  /\ [][SessionFault => thinkCount' = thinkCount]_vars

Cleared == ~isRunning /\ session \in {"disconnected", "closed"}

C17_StopIsFinal ==
  /\ [][Cleared => thinkCount' = thinkCount]_vars
  /\ [][Cleared => ~isRunning']_vars
  /\ (Cleared /\ handlers # <<>>) ~> (handlers = <<>>)
  /\ (Cleared /\ pc # "connecting") ~> (pc = "ended" \/ process = "exited")

(***************************************************************************)
(* C18: when the reasoning call fails and the count that results does not  *)
(* exceed maxConsecutiveErrors, think adds exactly 1 to consecutiveErrors, *)
(* returns the holding action wait, and makes no second reasoning call in  *)
(* that cycle.                                                             *)
(***************************************************************************)
\* this step holds a reasoning call that fails
CallFails == failStreak' = failStreak + 1

C18_FailureHolds ==
  [][ (CallFails /\ consecutiveErrors + 1 <= maxConsecutiveErrors) =>
        /\ consecutiveErrors' = consecutiveErrors + 1
        /\ loopPlan' = Plan(W_wait, Literal("Error recovery"))
        /\ thinkCount' = thinkCount
        /\ pc' # "thinking" ]_vars

\* the fifth failure in a row has been counted and answered by wait
C18_Witness ==
  /\ failStreak = 5
  /\ consecutiveErrors = maxConsecutiveErrors
  /\ loopPlan = Plan(W_wait, Literal("Error recovery"))
  /\ thinkCount = 5

(***************************************************************************)
(* C19: the fallback plan is a function of health and phase alone, read in *)
(* this order: health below 10 gives wait, whatever the phase; otherwise   *)
(* the phase early gives mine wood; otherwise explore.                     *)
(***************************************************************************)
C19_FallbackLadder ==
  [][ (CallFails /\ consecutiveErrors + 1 > maxConsecutiveErrors) =>
        loopPlan'.action =
          IF health < 10 THEN W_wait
          ELSE IF gamePhase = "early" THEN W_mine \o SP \o W_wood
          ELSE W_explore ]_vars

\* the fallback has answered a sixth failure by wait, at health 9 in the
\* phase mid
C19_Witness ==
  /\ consecutiveErrors = maxConsecutiveErrors + 1
  /\ health = 9
  /\ gamePhase = "mid"
  /\ failStreak = maxConsecutiveErrors + 1
  /\ loopPlan = Plan(W_wait, Literal("Low health, being cautious"))

(***************************************************************************)
(* C20: determineGamePhase reads the tiers from the most advanced to the   *)
(* least: an item named after elytra or dragon gives endgame; else one     *)
(* named after diamond or netherite gives late; else one named after iron  *)
(* gives mid; else early.  An inventory with iron and diamond items is     *)
(* late, one with an elytra is endgame.                                    *)
(***************************************************************************)
\* an item of the inventory has the word in its name, in whatever case
Holds(inv, word) ==
  \E i \in 1..Len(inv) :
    inv[i].name # undefined /\ includes(toLowerCase(inv[i].name), word)

TierOf(inv) ==
  IF Holds(inv, <<"e","l","y","t","r","a">>) \/ Holds(inv, <<"d","r","a","g","o","n">>)
  THEN "endgame"
  ELSE IF Holds(inv, <<"d","i","a","m","o","n","d">>)
          \/ Holds(inv, <<"n","e","t","h","e","r","i","t","e">>)
  THEN "late"
  ELSE IF Holds(inv, <<"i","r","o","n">>) THEN "mid"
  ELSE "early"

\* the handler of inventory_content stores what determineGamePhase returns
\* for the inventory the state holds when it is called
C20_Tiers ==
  [][ (inventory' # inventory \/ gamePhase' # gamePhase) =>
        gamePhase' = TierOf(inventory) ]_vars

(***************************************************************************)
(* C21: every execute call that is not turned away as Busy appends exactly *)
(* one history entry when it completes, by a result of success or of       *)
(* failure, by an exception or by the timeout; the entry holds the         *)
(* gamePhase and the position of the state at that moment, and no later    *)
(* step alters an entry of the log.                                        *)
(***************************************************************************)
\* this step holds the end of an execute call that was not turned away: of
\* one that awaited its handler, or of one that ends in the task it began in
Completes ==
  \/ pending # NoPending /\ pending' = NoPending
  \/ (LoopExecutes \/ ManualExecutes) /\ ~isBusy /\ pending' = NoPending

\* the action of the call that ends
completedAction == IF pending # NoPending THEN pending.action ELSE calledAction

C21_OneEntry ==
  [][ IF Completes
      THEN /\ Len(appended') = Len(appended) + 1
           /\ LET entry == appended'[Len(appended')]
              IN  /\ entry.action = completedAction
                  /\ entry.phase = gamePhase'
                  /\ entry.position = position'
                  /\ LET pushed == Append(actionHistory, entry)
                     IN  actionHistory' = IF Len(pushed) > historyCapacity
                                          THEN SubSeq(pushed, 2, Len(pushed))
                                          ELSE pushed
      ELSE actionHistory' = actionHistory /\ appended' = appended ]_vars

\* the log holds the entry of a timeout, written in a phase and at a
\* position that the state has left since
C21_Witness ==
  /\ Len(actionHistory) = 1
  /\ actionHistory[1].result = ErrorMark
  /\ actionHistory[1].phase = "early"
  /\ gamePhase = "mid"
  /\ actionHistory[1].position # position

(***************************************************************************)
(* C22: an execute call that completes sets consecutiveErrors to 0 when    *)
(* its action completed with success = true, and only then: a failure      *)
(* result, an exception or a timeout leaves the counter as the call found  *)
(* it.                                                                     *)
(***************************************************************************)
C22_ResetOnSuccess ==
  [][ Completes =>
        consecutiveErrors' = IF returned'.result.success = TRUE
                             THEN 0
                             ELSE errorsAtCall ]_vars

\* in this step performAction of src/bot.js sets up its race
BotRaces == botCurrent = NoBotPlan /\ botCurrent' # NoBotPlan

(***************************************************************************)
(* C23: every handler is raced against the same timer of actionTimeout     *)
(* (30000 ms), whatever the plan says (its estimatedTime) and whoever       *)
(* called execute: a call is timed out when its handler has taken 30000 ms, *)
(* and the timer of a race is set to 30000 ms.                             *)
(***************************************************************************)
C23_FixedTimeout ==
  [][ /\ TimesOut => \E k \in 1..Len(handlers) :
                        /\ handlers[k].raced /\ ~handlers'[k].raced
                        /\ handlers[k].elapsed <= actionTimeout
                        /\ wakes(handlers[k]) >= actionTimeout
      /\ BotRaces => botTimer' = actionTimeout ]_vars

(***************************************************************************)
(* C24: the control loop is one sequential flow.  In every iteration the   *)
(* decide call has completed when execute begins, the sleep between two    *)
(* cycles follows the end of execute, and no decide begins while a         *)
(* reasoning call or the execute call of the loop is in progress.          *)
(***************************************************************************)
C24_Sequential ==
  /\ [](pending.caller = "loop" <=> pc = "executing")
  /\ [][ /\ (pending'.caller = "loop" /\ pending.caller # "loop") => LoopExecutes
         /\ (returned' # returned /\ returned'.caller = "loop") =>
               (LoopExecutes \/ pc = "executing")
         /\ StartsDecide => /\ pc \in {"connecting", "sleeping", "cooldown"}
                            /\ pending.caller # "loop"
         /\ (pc' = "sleeping" /\ pc # "sleeping") =>
               /\ pc \in {"thinking", "executing"}
               /\ pending'.caller # "loop"
               /\ returned'.caller = "loop" ]_vars

\* the second iteration of the loop awaits its execute call, after the
\* first has completed its own
C24_Witness ==
  /\ thinkCount = 2
  /\ pc = "executing"
  /\ Len(actionHistory) = 1

\* the position a step of size (in fortieths of a block) from p in the
\* direction d
Stepped(p, d, size) ==
  IF d = W_north THEN Vec(p.x, p.y, p.z - size)
  ELSE IF d = W_south THEN Vec(p.x, p.y, p.z + size)
  ELSE IF d = W_east THEN Vec(p.x + size, p.y, p.z)
  ELSE Vec(p.x - size, p.y, p.z)

\* the number of blocks a posted move names
BlocksOf(action) ==
  CHOOSE n \in Distances : \E d \in MoveDirections : action = MoveText(d, n)

\* the position updates the moves of a log are to have emitted
RECURSIVE UpdatesDue(_)
UpdatesDue(log) ==
  IF log = <<>> THEN 0
  ELSE Min(4 * BlocksOf(log[1].action), 40) + UpdatesDue(Tail(log))

(***************************************************************************)
(* C25: a move of n >= 1 blocks emits exactly min(4n, 40) position         *)
(* updates, each a step of the same size n / min(4n, 40) blocks along the  *)
(* axis of its direction, and after every step the state position is the  *)
(* position emitted.  Sizes are exact fractions of a block here, not       *)
(* floating-point numbers.                                                 *)
(***************************************************************************)
C25_MoveSteps ==
  [][ \A d \in MoveDirections, n \in Distances :
        LET steps == Min(4 * n, 40)
        IN  /\ (written' # written
                  /\ (pending'.action = MoveText(d, n) \/ pending.action = MoveText(d, n))) =>
              /\ written' = written + 1
              /\ lastPacket'.name = "move_player"
              /\ lastPacket'.position = position'
              /\ \E size \in 1..(n * Block) :
                   /\ size * steps = n * Block
                   /\ position' = Stepped(position, d, size)
            /\ (pending.action = MoveText(d, n) /\ pending' = NoPending) =>
              /\ written' = written
              /\ written = UpdatesDue(appended') ]_vars

\* a move of eleven blocks is at its last step: forty updates are out
C25_Witness ==
  /\ pending.action = MoveText(W_east, 11)
  /\ written = 40
  /\ position = Vec(11 * Block, 0, 0)
  /\ lastPacket.position = position

\* the number of blocks a posted jumpmove names
JumpBlocksOf(action) ==
  CHOOSE n \in JumpDistances : \E d \in MoveDirections : action = JumpText(d, n)

\* the position updates the jump-moves of a log are to have emitted
RECURSIVE JumpUpdatesDue(_)
JumpUpdatesDue(log) ==
  IF log = <<>> THEN 0
  ELSE 2 * JumpBlocksOf(log[1].action) + JumpUpdatesDue(Tail(log))

\* p, one block higher (by = 1) or lower (by = -1)
Raised(p, by) == Vec(p.x, p.y + by * Block, p.z)

(***************************************************************************)
(* C26: a jumpmove of n blocks emits 2n position updates that alternate    *)
(* airborne (on_ground false, y one block up) and grounded (on_ground      *)
(* true, y one block down), the first airborne and the last grounded, each *)
(* half a block on along the axis of the direction; with no inbound        *)
(* position event in between the jump-move ends at the height it started   *)
(* at, n blocks on.                                                        *)
(***************************************************************************)
C26_JumpAlternates ==
  [][ \A d \in MoveDirections, n \in JumpDistances :
        /\ (written' # written
              /\ (pending'.action = JumpText(d, n) \/ pending.action = JumpText(d, n))) =>
             /\ written' = written + 1
             /\ lastPacket'.name = "move_player"
             /\ lastPacket'.position = position'
             /\ lastPacket'.on_ground =
                  IF pending = NoPending THEN FALSE ELSE ~lastPacket.on_ground
             /\ position' = Raised(Stepped(position, d, Block \div 2),
                                   IF lastPacket'.on_ground THEN 0 - 1 ELSE 1)
        /\ (pending.action = JumpText(d, n) /\ pending' = NoPending) =>
             /\ written' = written
             /\ written = JumpUpdatesDue(appended')
             /\ lastPacket.on_ground
             /\ position' = Displaced(StartedAt, d, n) ]_vars

\* a jump-move of three blocks to the west has ended on the ground, three
\* blocks west, after six updates
C26_Witness ==
  /\ returned.action = JumpText(W_west, 3)
  /\ returned.result.success
  /\ written = 6
  /\ lastPacket.on_ground
  /\ position = Vec(0 - 3 * Block, 0, 0)

\* a log with an entry pushed, cut to the capacity most recent entries
Kept(log, entry, capacity) ==
  LastOf(Append(log, entry), Min(Len(log) + 1, capacity))

(***************************************************************************)
(* C27: the trace log of the decisions never holds more than 20 entries,   *)
(* keeps the most recent entries in their order, and gains an entry only   *)
(* in a decide whose reasoning call succeeded; in the main program and in  *)
(* src/bot.js.                                                             *)
(***************************************************************************)
C27_TraceBounded ==
  /\ [](Len(conversationHistory) <= 20 /\ Len(botConversation) <= 20)
  /\ [][ /\ conversationHistory' # conversationHistory =>
              /\ LoopExecutes /\ failStreak' = 0
              /\ \E entry \in {conversationHistory'[Len(conversationHistory')]} :
                   /\ entry.action = loopPlan'
                   /\ conversationHistory' = Kept(conversationHistory, entry, 20)
         /\ (LoopExecutes /\ failStreak' = 0) => conversationHistory' # conversationHistory
         /\ botConversation' # botConversation =>
              /\ botPlanCalls' = botPlanCalls + 1 /\ clock' = clock + 1
              /\ \E entry \in {botConversation'[Len(botConversation')]} :
                   botConversation' = Kept(botConversation, entry, 20) ]_vars

\* a letter of either case
IsLetter(c) == \E i \in 1..26 : LowerChar(c) = LowerChars[i]

\* the verbs of the list (by their place in it) that stand in the text as
\* words, each followed by white space and arguments on its line
WordVerbs(s) ==
  {c \in 1..Len(commands) :
     \E p \in 1..Len(s) : /\ CommandAt(s, p, commands[c]).found
                          /\ (p = 1 \/ ~IsLetter(s[p - 1]))}

(***************************************************************************)
(* C28: when a reply without a marker holds two or more different known    *)
(* verbs with arguments, the plan parseAction returns is for the verb that *)
(* stands earliest in the list move, mine, explore, attack, chat, wait,    *)
(* jumpmove, wherever the verbs stand in the text.                         *)
(***************************************************************************)
C28_ListOrder ==
  \A i \in 1..Len(conversationHistory) :
    \E s \in {conversationHistory[i].response} : \E verbs \in {WordVerbs(s)} :
      (~HasMarker(s) /\ Cardinality(verbs) >= 2) =>
        commandOf(conversationHistory[i].action.action) =
          commands[CHOOSE c \in verbs : \A d \in verbs : c <= d]

(***************************************************************************)
(* C29: every command the prompt advertises can come out of the scan for   *)
(* verbs: a reply without a marker whose only command phrase is one verb   *)
(* with its arguments, "jumpmove <direction> <n>" as well, gives a plan    *)
(* that performAction dispatches to the handler of that verb.              *)
(***************************************************************************)
C29_ScanReaches ==
  \A i \in 1..Len(conversationHistory) :
    \E s \in {conversationHistory[i].response} : \E verbs \in {WordVerbs(s)} :
      (~HasMarker(s) /\ Cardinality(verbs) = 1) =>
        /\ commandOf(conversationHistory[i].action.action) \in
             {commands[c] : c \in verbs}
        /\ lookup(commandOf(conversationHistory[i].action.action)) = "handler"

(***************************************************************************)
(* C30: an inbound move_player packet whose runtime_id is not the entityId *)
(* of the state, or that holds no position, leaves position and rotation   *)
(* as they were; a packet for the entity of the state sets the position    *)
(* to its own, and the rotation when it holds one.                         *)
(***************************************************************************)
C30_ForeignMoveIgnored ==
  [][ received'.name = "move_player" =>
        IF received'.hasPosition /\ received'.runtime_id = entityId
        THEN /\ position' = received'.position
             /\ rotation' = IF received'.hasRotation THEN received'.rotation
                            ELSE rotation
        ELSE position' = position /\ rotation' = rotation ]_vars

\* the packet of another entity has come with a position, and the state is
\* where start_game put it
C30_Witness ==
  /\ received.name = "move_player"
  /\ received.hasPosition /\ received.hasRotation
  /\ entityId = 1 /\ received.runtime_id = 2
  /\ position = Vec(3 * Block, 64 * Block, 0 - 5 * Block)
  /\ received.position = Vec(0, 0, 0)
  /\ rotation = Rot(0, 0)

(***************************************************************************)
(* The position sync beside the control loop, the packets of the session   *)
(* and its end                                                             *)
(***************************************************************************)
\* the packets the session is followed for
MaxSync == 6

\* the start_game packets: one without an entity id, one with
SyncIds == {0, 1}

NextSync ==
  \/ Spawn
  \/ \E id \in SyncIds : StartGame(id, FALSE, Vec(0, 0, 0))
  \/ PositionSync(MaxSync)
  \/ \E response \in Replies, random \in Drawn : GeminiReplies(response, random)
  \/ LoopWakes(MaxThink)
  \/ \E k \in 1..Len(handlers) : HandlerResumes(k)
  \/ Disconnect
  \/ ClientError
  \/ Shutdown

SpecSync == Init /\ [][NextSync]_vars

(***************************************************************************)
(* C31: the periodic position sync writes to the session only while        *)
(* isRunning is true and the entity id is set, and after a disconnect or   *)
(* a shutdown it never writes to the session again.                        *)
(***************************************************************************)
\* the packet is the one of the position sync: a rotation of the state, not
\* the yaw, pitch and head_yaw of the command handlers
OfSync(packet) ==
  /\ packet.name = "move_player"
  /\ DOMAIN packet.rotation = {"yaw", "pitch"}

\* this step is a write of the position sync
SyncWrites == written' = written + 1 /\ OfSync(lastPacket')

C31_SyncWhileRunning ==
  [][ SyncWrites =>
        /\ isRunning /\ entityId # 0
        /\ lastPacket'.runtime_id = entityId
        /\ session \notin {"disconnected", "closed"}
        /\ process = "running" ]_vars

\* the sync has written, and the session has disconnected since
C31_Witness ==
  /\ OfSync(lastPacket)
  /\ session = "disconnected"
  /\ ~isRunning /\ ~positionSyncInterval

=============================================================================
